---- MODULE Spec2Model ----
(***************************************************************************)
(* Model of FFmpeg.composeVideo (the filter-graph command builder) of      *)
(* yishe-videos.  One call of composeVideo is a sequential program; pc is  *)
(* its position.  The filter graph the code keeps as an array of strings   *)
(* (filterComplex) is kept as a sequence of fragments, each with its input *)
(* pads, its comma separated operations and its output pad; FilterText     *)
(* renders a fragment to the text the code builds and GraphText joins the  *)
(* fragments with ';' as filterComplex.join(';') does.                     *)
(*                                                                         *)
(* Seconds (duration, startTime, transitionDuration, fadeDuration) are     *)
(* fixed-point integers counted in tenths of a second, so that the default *)
(* 0.5 is 5; Str renders them the way a JS template literal does.  Only    *)
(* multiples of 0.5 s are drawn, which are exact as doubles.               *)
(***************************************************************************)
EXTENDS Integers, Sequences, FiniteSets, TLC

(***************************************************************************)
(* Bounds                                                                  *)
(***************************************************************************)
MaxLen == 3    \* longest resource list of a compose call
MaxRuns == 2   \* calls of composeVideo on the FFmpeg singleton (SpecRerun)

(***************************************************************************)
(* JavaScript values                                                       *)
(***************************************************************************)
\* obj.f !== undefined
Has(obj, f) == f \in DOMAIN obj

\* obj.f || dflt for a number (undefined and 0 are falsy)
NumOr(obj, f, dflt) == IF Has(obj, f) /\ obj[f] # 0 THEN obj[f] ELSE dflt

\* obj.f || dflt for a string (undefined and '' are falsy)
StrOr(obj, f, dflt) == IF Has(obj, f) /\ obj[f] # "" THEN obj[f] ELSE dflt

\* obj.f !== undefined ? obj.f : dflt
NumDef(obj, f, dflt) == IF Has(obj, f) THEN obj[f] ELSE dflt

\* obj.f !== undefined && obj.f > 0
Positive(obj, f) == Has(obj, f) /\ obj[f] > 0

\* String(x) / `${x}` of a number of seconds held in tenths
Str(t) ==
  LET a == IF t < 0 THEN 0 - t ELSE t
      s == IF t < 0 THEN "-" ELSE ""
  IN  IF a % 10 = 0 THEN s \o ToString(a \div 10)
      ELSE s \o ToString(a \div 10) \o "." \o ToString(a % 10)

\* the percentage itself, not divided
RatioUndivided(p) == ToString(p)

\* `${p / 100}` of a non-negative integer percentage
Ratio100(p) ==
  IF p % 100 = 0 THEN ToString(p \div 100)
  ELSE IF p % 10 = 0 THEN ToString(p \div 100) \o "." \o ToString((p % 100) \div 10)
  ELSE IF p % 100 < 10 THEN ToString(p \div 100) \o ".0" \o ToString(p % 100)
  ELSE ToString(p \div 100) \o "." \o ToString(p % 100)

\* Math.max(0, x)
Max0(x) == IF x > 0 THEN x ELSE 0

\* array.join(sep)
RECURSIVE Join(_, _)
Join(seq, sep) ==
  IF Len(seq) = 0 THEN ""
  ELSE IF Len(seq) = 1 THEN seq[1]
  ELSE seq[1] \o sep \o Join(Tail(seq), sep)

\* a record with one more (or one replaced) field
With(obj, f, v) == [x \in DOMAIN obj \cup {f} |-> IF x = f THEN v ELSE obj[x]]

(***************************************************************************)
(* File system                                                             *)
(***************************************************************************)
Cwd == "/app"
RelativePaths == {"bgm.mp3"}

\* path.resolve(p)
Resolve(p) == IF p \in RelativePaths THEN Cwd \o "/" \o p ELSE p

\* files present when a call starts
UploadedFiles ==
  {"/uploads/a.png", "/uploads/b.png", "/uploads/c.mp4", "/uploads/d.mp4",
   "/uploads/e.mp3", "/app/bgm.mp3"}

(***************************************************************************)
(* Inputs of a call: resource descriptors as POST /api/compose builds them *)
(***************************************************************************)
ResourcePath(type, path) ==
  [type |-> type, path |-> path, transition |-> "none", transitionDuration |-> 5,
   position |-> "center", scaleMode |-> "fit", rotation |-> 0, opacity |-> 100,
   fade |-> "none", fadeDuration |-> 10, volume |-> 100]

ResourcePool ==
  { With(ResourcePath("image", "/uploads/a.png"), "duration", 30),
    With(ResourcePath("image", "/uploads/b.png"), "transition", "fade"),
    With(With(ResourcePath("image", "/uploads/gone.png"), "duration", 0),
         "position", "top-left"),
    ResourcePath("video", "/uploads/c.mp4"),
    With(With(With(ResourcePath("video", "/uploads/d.mp4"), "startTime", 20),
              "duration", 50), "transition", "fadeout"),
    ResourcePath("audio", "/uploads/e.mp3"),
    With(ResourcePath("audio", "/uploads/e.mp3"), "volume", 50),
    With(With(ResourcePath("image", "/uploads/a.png"), "duration", 30),
         "transition", "fade"),
    With(With(With(With(ResourcePath("audio", "bgm.mp3"), "volume", 50),
                   "startTime", 10), "duration", 100), "fade", "both"),
    ResourcePath("audio", "/uploads/gone.mp3"),
    ResourcePath("text", "/uploads/a.png") }

ResourceLists == UNION { [1..n -> ResourcePool] : n \in 0..MaxLen }

OptionsPool ==
  { [resolution |-> <<1280, 720>>, width |-> 1280, height |-> 720, fps |-> 25,
     videoCodec |-> "libx264", videoPreset |-> "medium", videoCrf |-> 23,
     videoBitrate |-> "2000k", audioCodec |-> "aac", audioBitrate |-> "192k",
     audioSampleRate |-> 44100, audioChannels |-> 2,
     backgroundColor |-> "#000000"],
    [videoCodec |-> "mpeg4", audioCodec |-> "copy", videoCrf |-> 60],
    [videoCodec |-> "libx265", videoCrf |-> 51, videoPreset |-> "fast"],
    [videoCodec |-> "libx264", videoCrf |-> 52, videoBitrate |-> "800k"],
    [videoCrf |-> 0 - 1] }

(***************************************************************************)
(* Resolved options (composeVideo, the block before the validation)        *)
(***************************************************************************)
\* parseInt(parts[k]) || dflt ; a part that does not parse is held as 0
ResolutionPart(opts, k, dflt) ==
  IF Has(opts, "resolution") /\ Len(opts.resolution) = 2 /\ opts.resolution[k] # 0
  THEN opts.resolution[k] ELSE dflt

Width(opts) == ResolutionPart(opts, 1, NumOr(opts, "width", 1280))
Height(opts) == ResolutionPart(opts, 2, NumOr(opts, "height", 720))
Fps(opts) == NumOr(opts, "fps", 25)
VideoCodec(opts) == StrOr(opts, "videoCodec", "libx264")
VideoPreset(opts) == StrOr(opts, "videoPreset", "medium")
VideoCrf(opts) == NumDef(opts, "videoCrf", 23)
VideoBitrate(opts) == StrOr(opts, "videoBitrate", "2000k")
AudioCodec(opts) == StrOr(opts, "audioCodec", "aac")
AudioBitrate(opts) == StrOr(opts, "audioBitrate", "192k")
AudioSampleRate(opts) == NumOr(opts, "audioSampleRate", 44100)
AudioChannels(opts) == NumOr(opts, "audioChannels", 2)

\* backgroundColor.replace('#', '0x')
BgColorHex(opts) ==
  LET c == StrOr(opts, "backgroundColor", "#000000")
  IN  CASE c = "#000000" -> "0x000000"
        [] c = "#ffffff" -> "0xffffff"
        [] OTHER -> c

(***************************************************************************)
(* Pad labels                                                              *)
(***************************************************************************)
\* inputs counted from 1
InputPadOneBased(idx, stream) == "[" \o ToString(idx + 1) \o ":" \o stream \o "]"

\* `[${inputIndex}:v]` and `[${inputIndex}:a]`
InputPad(idx, stream) == "[" \o ToString(idx) \o ":" \o stream \o "]"

\* the index left out of the label
VideoLabelNoIndex(idx) == "[v]"

\* `[v${inputIndex}]`
VideoLabel(idx) == "[v" \o ToString(idx) \o "]"

\* `[a${inputIndex}]`
AudioLabel(idx) == "[a" \o ToString(idx) \o "]"

OutV == "[outv]"
OutA == "[outa]"

(***************************************************************************)
(* Per-resource filter builders                                            *)
(***************************************************************************)
\* `${rotation * Math.PI / 180}` for the angles drawn
Radians(deg) ==
  CASE deg = 90 -> "1.5707963267948966"
    [] deg = 180 -> "3.141592653589793"
    [] deg = 270 -> "4.71238898038469"
    [] OTHER -> ToString(deg) \o "*PI/180"

\* buildScaleAndPositionFilter with the scale direction of an unrecognised
\* scaleMode and the place of the rotation left open
ScaleAndPositionVariant(resource, opts, fallback, rotateAfterPad) ==
  LET scaleMode == StrOr(resource, "scaleMode", "fit")
      position == StrOr(resource, "position", "center")
      rotation == NumOr(resource, "rotation", 0)
      opacity == NumDef(resource, "opacity", 100)
      w == ToString(Width(opts))
      h == ToString(Height(opts))
      size == w \o ":" \o h
      direction == IF scaleMode = "fit" THEN "decrease"
                   ELSE IF scaleMode \in {"fill", "crop"} THEN "increase"
                   ELSE fallback
      scale == <<"scale=" \o size \o ":force_original_aspect_ratio=" \o direction>>
               \o (IF scaleMode = "crop" THEN <<"crop=" \o size>> ELSE <<>>)
      padX == IF position \in {"top-left", "bottom-left"} THEN "0"
              ELSE IF position \in {"top-right", "bottom-right"} THEN "ow-iw"
              ELSE "(ow-iw)/2"
      padY == IF position \in {"top-left", "top-right"} THEN "0"
              ELSE IF position \in {"bottom-left", "bottom-right"} THEN "oh-ih"
              ELSE "(oh-ih)/2"
      pad == <<"pad=" \o size \o ":" \o padX \o ":" \o padY
                \o ":color=" \o BgColorHex(opts)>>
      rotate == IF rotation # 0
                THEN <<"rotate=" \o Radians(rotation) \o ":fillcolor="
                        \o BgColorHex(opts) \o ":ow=" \o w \o ":oh=" \o h>>
                ELSE <<>>
      alpha == IF opacity < 100
               THEN <<"format=yuva420p",
                      "colorchannelmixer=aa=" \o Ratio100(opacity)>>
               ELSE <<>>
  IN  IF rotateAfterPad THEN scale \o pad \o rotate \o alpha
      ELSE scale \o rotate \o pad \o alpha

\* the rotation applied before the pad
buildScaleAndPositionFilterRotateFirst(resource, opts) ==
  ScaleAndPositionVariant(resource, opts, "decrease", FALSE)

\* an unrecognised scaleMode treated as fill
buildScaleAndPositionFilterFillFallback(resource, opts) ==
  ScaleAndPositionVariant(resource, opts, "increase", TRUE)

\* the operations of buildScaleAndPositionFilter, without the input label
buildScaleAndPositionFilter(resource, opts) ==
  LET scaleMode == StrOr(resource, "scaleMode", "fit")
      position == StrOr(resource, "position", "center")
      rotation == NumOr(resource, "rotation", 0)
      opacity == NumDef(resource, "opacity", 100)
      w == ToString(Width(opts))
      h == ToString(Height(opts))
      size == w \o ":" \o h
      scale ==
        IF scaleMode = "fit"
        THEN <<"scale=" \o size \o ":force_original_aspect_ratio=decrease">>
        ELSE IF scaleMode = "fill"
        THEN <<"scale=" \o size \o ":force_original_aspect_ratio=increase">>
        ELSE IF scaleMode = "crop"
        THEN <<"scale=" \o size \o ":force_original_aspect_ratio=increase",
               "crop=" \o size>>
        ELSE <<"scale=" \o size \o ":force_original_aspect_ratio=decrease">>
      padX == IF position \in {"top-left", "bottom-left"} THEN "0"
              ELSE IF position \in {"top-right", "bottom-right"} THEN "ow-iw"
              ELSE "(ow-iw)/2"
      padY == IF position \in {"top-left", "top-right"} THEN "0"
              ELSE IF position \in {"bottom-left", "bottom-right"} THEN "oh-ih"
              ELSE "(oh-ih)/2"
      pad == <<"pad=" \o size \o ":" \o padX \o ":" \o padY
                \o ":color=" \o BgColorHex(opts)>>
      rotate == IF rotation # 0
                THEN <<"rotate=" \o Radians(rotation) \o ":fillcolor="
                        \o BgColorHex(opts) \o ":ow=" \o w \o ":oh=" \o h>>
                ELSE <<>>
      alpha == IF opacity < 100
               THEN <<"format=yuva420p",
                      "colorchannelmixer=aa=" \o Ratio100(opacity)>>
               ELSE <<>>
  IN  scale \o pad \o rotate \o alpha

\* the start of the fade-out not clamped at 0
buildTransitionFilterUnclamped(transition, transitionDuration, totalDuration, opts) ==
  LET td == Str(transitionDuration)
      w == ToString(Width(opts))
      h == ToString(Height(opts))
      repad == "pad=" \o w \o ":" \o h \o ":(ow-iw)/2:(oh-ih)/2:color="
               \o BgColorHex(opts)
      fadeIn == IF transition \in {"fade", "fadein"}
                THEN <<"fade=t=in:st=0:d=" \o td>> ELSE <<>>
      fadeOut == IF transition \in {"fade", "fadeout"}
                 THEN <<"fade=t=out:st="
                         \o Str(totalDuration - transitionDuration)
                         \o ":d=" \o td>>
                 ELSE <<>>
      slide ==
        CASE transition = "slideLeft" ->
               <<"crop=" \o w \o ":" \o h \o ":max(0,-" \o w \o "*(1-t/" \o td
                  \o ")):0", repad>>
          [] transition = "slideRight" ->
               <<"crop=" \o w \o ":" \o h \o ":min(iw-" \o w \o "," \o w
                  \o "*(1-t/" \o td \o ")):0", repad>>
          [] transition = "slideUp" ->
               <<"crop=" \o w \o ":" \o h \o ":0:min(ih-" \o h \o "," \o h
                  \o "*(1-t/" \o td \o "))", repad>>
          [] transition = "slideDown" ->
               <<"crop=" \o w \o ":" \o h \o ":0:max(0,-" \o h \o "*(1-t/" \o td
                  \o "))", repad>>
          [] OTHER -> <<>>
      zoomExpr(from) == from \o "+(1-" \o from \o ")*min(1,t/" \o td \o ")"
      zoom ==
        CASE transition = "zoomIn" ->
               <<"scale=iw*" \o zoomExpr("0.5") \o ":ih*" \o zoomExpr("0.5"), repad>>
          [] transition = "zoomOut" ->
               <<"scale=iw*" \o zoomExpr("1.5") \o ":ih*" \o zoomExpr("1.5"), repad>>
          [] OTHER -> <<>>
  IN  IF transition = "none" THEN <<>> ELSE fadeIn \o fadeOut \o slide \o zoom

\* the operations buildTransitionFilter appends
buildTransitionFilter(transition, transitionDuration, totalDuration, opts) ==
  LET td == Str(transitionDuration)
      w == ToString(Width(opts))
      h == ToString(Height(opts))
      repad == "pad=" \o w \o ":" \o h \o ":(ow-iw)/2:(oh-ih)/2:color="
               \o BgColorHex(opts)
      fadeIn == IF transition \in {"fade", "fadein"}
                THEN <<"fade=t=in:st=0:d=" \o td>> ELSE <<>>
      fadeOut == IF transition \in {"fade", "fadeout"}
                 THEN <<"fade=t=out:st="
                         \o Str(Max0(totalDuration - transitionDuration))
                         \o ":d=" \o td>>
                 ELSE <<>>
      slide ==
        CASE transition = "slideLeft" ->
               <<"crop=" \o w \o ":" \o h \o ":max(0,-" \o w \o "*(1-t/" \o td
                  \o ")):0", repad>>
          [] transition = "slideRight" ->
               <<"crop=" \o w \o ":" \o h \o ":min(iw-" \o w \o "," \o w
                  \o "*(1-t/" \o td \o ")):0", repad>>
          [] transition = "slideUp" ->
               <<"crop=" \o w \o ":" \o h \o ":0:min(ih-" \o h \o "," \o h
                  \o "*(1-t/" \o td \o "))", repad>>
          [] transition = "slideDown" ->
               <<"crop=" \o w \o ":" \o h \o ":0:max(0,-" \o h \o "*(1-t/" \o td
                  \o "))", repad>>
          [] OTHER -> <<>>
      zoomExpr(from) == from \o "+(1-" \o from \o ")*min(1,t/" \o td \o ")"
      zoom ==
        CASE transition = "zoomIn" ->
               <<"scale=iw*" \o zoomExpr("0.5") \o ":ih*" \o zoomExpr("0.5"), repad>>
          [] transition = "zoomOut" ->
               <<"scale=iw*" \o zoomExpr("1.5") \o ":ih*" \o zoomExpr("1.5"), repad>>
          [] OTHER -> <<>>
  IN  IF transition = "none" THEN <<>> ELSE fadeIn \o fadeOut \o slide \o zoom

\* the transition a visual fragment gets (composeVideo, "应用过渡效果")
ApplyTransition(resource, totalDuration, opts) ==
  LET transition == StrOr(resource, "transition", "none")
      transitionDuration == NumOr(resource, "transitionDuration", 5)
  IN  IF transition # "none" /\ transitionDuration > 0
      THEN buildTransitionFilter(transition, transitionDuration, totalDuration, opts)
      ELSE <<>>

\* the image fragment without its trim
ImageFilterUntrimmed(img, idx, opts) ==
  LET duration == NumOr(img, "duration", 30)
  IN  [ins |-> <<InputPad(idx, "v")>>,
       ops |-> <<"loop=-1:size=1:start=0">>
               \o buildScaleAndPositionFilter(img, opts)
               \o <<"setsar=1", "fps=" \o ToString(Fps(opts)) \o ":round=up">>
               \o ApplyTransition(img, duration, opts),
       out |-> VideoLabel(idx)]

\* the fragment images.forEach pushes for img at input index idx
ImageFilter(img, idx, opts) ==
  LET duration == NumOr(img, "duration", 30)
  IN  [ins |-> <<InputPad(idx, "v")>>,
       ops |-> <<"loop=-1:size=1:start=0">>
               \o buildScaleAndPositionFilter(img, opts)
               \o <<"setsar=1", "fps=" \o ToString(Fps(opts)) \o ":round=up",
                    "trim=duration=" \o Str(duration)>>
               \o ApplyTransition(img, duration, opts),
       out |-> VideoLabel(idx)]

\* the fragment videos.forEach pushes for vid at input index idx
VideoFilter(vid, idx, opts) ==
  [ins |-> <<InputPad(idx, "v")>>,
   ops |-> buildScaleAndPositionFilter(vid, opts)
           \o <<"setsar=1", "fps=" \o ToString(Fps(opts))>>
           \o ApplyTransition(vid, NumOr(vid, "duration", 50), opts),
   out |-> VideoLabel(idx)]

\* the volume filter pushed whatever the volume
AudioFiltersVolumeAlways(aud) ==
  LET fade == StrOr(aud, "fade", "none")
      fadeDuration == NumOr(aud, "fadeDuration", 10)
      volume == NumDef(aud, "volume", 100)
      vol == <<"volume=" \o Ratio100(volume)>>
      fadeIn == IF fade # "none" /\ fadeDuration > 0 /\ fade \in {"fadein", "both"}
                THEN <<"afade=t=in:st=0:d=" \o Str(fadeDuration)>> ELSE <<>>
      fadeOut == IF fade # "none" /\ fadeDuration > 0 /\ fade \in {"fadeout", "both"}
                 THEN <<"afade=t=out:st="
                         \o Str(Max0(NumOr(aud, "duration", 100) - fadeDuration))
                         \o ":d=" \o Str(fadeDuration)>>
                 ELSE <<>>
  IN  vol \o fadeIn \o fadeOut

\* audioFilters of audios.forEach for aud
AudioFilters(aud) ==
  LET fade == StrOr(aud, "fade", "none")
      fadeDuration == NumOr(aud, "fadeDuration", 10)
      volume == NumDef(aud, "volume", 100)
      vol == IF volume # 100 THEN <<"volume=" \o Ratio100(volume)>> ELSE <<>>
      fadeIn == IF fade # "none" /\ fadeDuration > 0 /\ fade \in {"fadein", "both"}
                THEN <<"afade=t=in:st=0:d=" \o Str(fadeDuration)>> ELSE <<>>
      fadeOut == IF fade # "none" /\ fadeDuration > 0 /\ fade \in {"fadeout", "both"}
                 THEN <<"afade=t=out:st="
                         \o Str(Max0(NumOr(aud, "duration", 100) - fadeDuration))
                         \o ":d=" \o Str(fadeDuration)>>
                 ELSE <<>>
  IN  vol \o fadeIn \o fadeOut

\* the flags pushed before -i for a video or audio input
SeekFlags(resource) ==
  (IF Positive(resource, "startTime")
   THEN <<"-ss", Str(resource.startTime)>> ELSE <<>>)
  \o (IF Positive(resource, "duration")
      THEN <<"-t", Str(resource.duration)>> ELSE <<>>)

\* -ss and -t pushed after the -i they belong to
InputArgsSeekAfter(resource) == <<"-i", Resolve(resource.path)>> \o SeekFlags(resource)

\* the arguments of one video or audio input: -ss and -t go before -i
InputArgs(resource) == SeekFlags(resource) \o <<"-i", Resolve(resource.path)>>

\* the text of one element of filterComplex
FilterText(f) == Join(f.ins, "") \o Join(f.ops, ",") \o f.out

\* filterComplex.join(';')
GraphText(fc) == Join([k \in 1..Len(fc) |-> FilterText(fc[k])], ";")

(***************************************************************************)
(* Graph assembly and output options                                       *)
(***************************************************************************)
\* unshift in place of push: the newest resource of a kind comes first
PartitionNewestFirst(rs, type) ==
  LET kept == SelectSeq(rs, LAMBDA r : r.type = type)
  IN  [k \in 1..Len(kept) |-> kept[Len(kept) + 1 - k]]

\* the three loops of composeVideo take the inputs in this order
Partition(rs, type) == SelectSeq(rs, LAMBDA r : r.type = type)

\* str.replace(from, to) on a fragment whose text ends with `from`: the first
\* occurrence is replaced, an input pad of that name before the output pad
ReplaceLabel(f, from, to) ==
  IF \E k \in 1..Len(f.ins) : f.ins[k] = from
  THEN LET first == CHOOSE k \in 1..Len(f.ins) :
                      /\ f.ins[k] = from
                      /\ \A j \in 1..(k - 1) : f.ins[j] # from
       IN  [f EXCEPT !.ins[first] = to]
  ELSE [f EXCEPT !.out = to]

\* the single visual pad left as [v<index>]
ConcatVideoNoRename(fc, vInputs) ==
  IF Len(vInputs) <= 1 THEN fc
  ELSE Append(fc,
         [ins |-> [k \in 1..Len(vInputs) |-> VideoLabel(vInputs[k].index)],
          ops |-> <<"concat=n=" \o ToString(Len(vInputs)) \o ":v=1:a=0">>,
          out |-> OutV])

\* a concat emitted for a single visual input as well
ConcatVideoAlways(fc, vInputs) ==
  IF Len(vInputs) = 0 THEN fc
  ELSE Append(fc,
         [ins |-> [k \in 1..Len(vInputs) |-> VideoLabel(vInputs[k].index)],
          ops |-> <<"concat=n=" \o ToString(Len(vInputs)) \o ":v=1:a=0">>,
          out |-> OutV])

\* "连接所有视频片段": rename the only visual pad, or concat all of them
ConcatVideo(fc, vInputs) ==
  IF Len(vInputs) = 0 THEN fc
  ELSE IF Len(vInputs) = 1
  THEN LET label == VideoLabel(vInputs[1].index)
           hits == {k \in 1..Len(fc) : fc[k].out = label}
       IN  IF hits = {} THEN fc
           ELSE LET last == CHOOSE k \in hits : \A j \in hits : j <= k
                IN  [fc EXCEPT ![last] = ReplaceLabel(fc[last], label, OutV)]
  ELSE Append(fc,
         [ins |-> [k \in 1..Len(vInputs) |-> VideoLabel(vInputs[k].index)],
          ops |-> <<"concat=n=" \o ToString(Len(vInputs)) \o ":v=1:a=0">>,
          out |-> OutV])

\* the filtered label used whether or not a fragment was pushed
AudioPadAlwaysLabel(item) == AudioLabel(item.index)

\* the pad an entry of audioInputs contributes to the mix
AudioPad(item) ==
  IF item.filterIndex # <<>> THEN AudioLabel(item.filterIndex[1])
  ELSE InputPad(item.index, "a")

\* no amix for a single audio input
MixAudioSkipSingle(fc, aInputs) ==
  IF Len(aInputs) <= 1 THEN fc
  ELSE Append(fc,
         [ins |-> [k \in 1..Len(aInputs) |-> AudioPad(aInputs[k])],
          ops |-> <<"amix=inputs=" \o ToString(Len(aInputs))
                     \o ":duration=longest:dropout_transition=2">>,
          out |-> OutA])

\* "合并所有音频": one amix over every entry of audioInputs
MixAudio(fc, aInputs) ==
  IF Len(aInputs) = 0 THEN fc
  ELSE Append(fc,
         [ins |-> [k \in 1..Len(aInputs) |-> AudioPad(aInputs[k])],
          ops |-> <<"amix=inputs=" \o ToString(Len(aInputs))
                     \o ":duration=longest:dropout_transition=2">>,
          out |-> OutA])

\* "添加 filter_complex"
FilterComplexArgs(fc) ==
  IF Len(fc) > 0 THEN <<"-filter_complex", GraphText(fc)>> ELSE <<>>

\* the CRF emitted whatever its value
VideoEncodingArgsAnyCrf(opts) ==
  <<"-vcodec", VideoCodec(opts)>>
  \o (IF VideoCodec(opts) \in {"libx264", "libx265"}
      THEN <<"-preset", VideoPreset(opts), "-crf", ToString(VideoCrf(opts))>>
      ELSE <<"-b:v", VideoBitrate(opts)>>)
  \o <<"-pix_fmt", "yuv420p", "-shortest">>

\* "添加输出选项": codec, preset and CRF or bitrate, pixel format, -shortest
VideoEncodingArgs(opts) ==
  <<"-vcodec", VideoCodec(opts)>>
  \o (IF VideoCodec(opts) \in {"libx264", "libx265"}
      THEN <<"-preset", VideoPreset(opts)>>
           \o (IF VideoCrf(opts) >= 0 /\ VideoCrf(opts) <= 51
               THEN <<"-crf", ToString(VideoCrf(opts))>>
               ELSE <<"-b:v", VideoBitrate(opts)>>)
      ELSE <<"-b:v", VideoBitrate(opts)>>)
  \o <<"-pix_fmt", "yuv420p", "-shortest">>

\* "音频编码参数"
AudioEncodingArgs(opts) ==
  IF AudioCodec(opts) # "copy"
  THEN <<"-acodec", AudioCodec(opts), "-b:a", AudioBitrate(opts),
         "-ar", ToString(AudioSampleRate(opts)),
         "-ac", ToString(AudioChannels(opts))>>
  ELSE <<"-acodec", "copy">>

\* the first video taken to be input 0
FirstVideoIndexZero(imgs) == 0

\* const firstVideoIndex = images.length
FirstVideoIndex(imgs) == Len(imgs)

\* "映射输出流": -map of the video pad, then of the audio pad or the fallback
MapArgs(vInputs, aInputs, imgs, vids, opts) ==
  (IF Len(vInputs) > 0 THEN <<"-map", OutV>> ELSE <<>>)
  \o (IF Len(aInputs) > 0
      THEN AudioEncodingArgs(opts) \o <<"-map", OutA>>
      ELSE IF Len(vids) > 0
      THEN <<"-map", ToString(FirstVideoIndex(imgs)) \o ":a?">>
           \o AudioEncodingArgs(opts)
      ELSE <<>>)

(***************************************************************************)
(* State                                                                   *)
(***************************************************************************)
VARIABLES
  resourcesGiven,  \* FALSE when the caller passed no resource list at all
  resources,       \* the resource list of the call
  options,         \* the options of the call
  outputPath,      \* the outputPath of the call
  disk,            \* paths that exist on disk
  pc,              \* position of the call inside composeVideo
  images, videos, audios,      \* the partition of resources
  args,            \* the argument list under construction
  filterComplex,   \* the fragments of the filter graph
  inputIndex,      \* index the next -i input gets
  videoInputs,     \* [index, duration] of every visual input
  audioInputs,     \* [index, filterIndex] of every audio input
  i,               \* position of the running forEach loop
  error,           \* kind of the error the call threw, "" when none
  errorPath,       \* path named by a not-found error
  pushedInputs,    \* -i arguments pushed by this call
  spawned,         \* encoder processes spawned by this call
  run,             \* number of the call on the singleton
  prevArgs         \* argument list of the previous call, <<>> when none

\* POST /api/compose (server.js): the handler around composeVideo
VARIABLES
  body,            \* req.body of the request being handled
  handler,         \* position of the request handler
  resIndex,        \* 1-based index of the resource the handler loop is at
  resourcePaths,   \* the descriptors built so far for composeVideo
  tempFiles,       \* paths of the files downloaded for this request
  response,        \* the HTTP response sent, <<>> while none is sent
  downloaded       \* number of files downloadFromUrl has written

composeHandler == <<body, handler, resIndex, resourcePaths, tempFiles,
                    response, downloaded>>

\* executeFFmpeg: the child process and the promise it settles
VARIABLES
  allArgs,         \* the argument list the process is spawned with
  child,           \* events the child process has still to emit
  delivered,       \* events the listeners have handled, oldest first
  stdout, stderr,  \* the text captured from the two pipes
  promise          \* the promise executeFFmpeg returned

childProcess == <<allArgs, child, delivered, stdout, stderr, promise>>

\* compose requests in flight at the same time
VARIABLES
  now,             \* Date.now()
  inflight,        \* per request: its position and its output path
  author           \* per file of the output directory: the request that wrote it

concurrent == <<now, inflight, author>>

\* POST /api/process: the chain of operations on one uploaded file
VARIABLES
  opIndex,           \* 1-based index of the operation the chain is at
  currentInputPath,  \* input of the next operation: [dir, name, ext]
  opOutputPath,      \* output of the operation being awaited
  commands,          \* the command of each operation done, held as its call
  written            \* intermediate files the operations have written

processHandler == <<opIndex, currentInputPath, opOutputPath, commands, written>>

\* downloadFromUrl, request by request
VARIABLES
  remote,          \* what the remote servers answer for each URL
  location,        \* the URL of the request in progress
  followed,        \* redirects followed for this download
  fetch            \* "idle", "requesting", "resolved" or "rejected"

download == <<remote, location, followed, fetch>>

\* DELETE /api/files/delete and DELETE /api/files/clear
VARIABLES
  platform,        \* "posix" or "win32": what path.join takes as separator
  fileRequest,     \* the last request of the two endpoints
  before           \* the files on disk when that request arrived

fileEndpoints == <<platform, fileRequest, before>>

\* the FFmpeg singleton's detection of the encoder
VARIABLES
  environment,     \* the version `"<ffmpegPath>" -version` prints now, "" if it fails
  changes,         \* how often the environment has changed
  isInstalled,     \* this.isInstalled
  version,         \* this.version, "" for null
  checkPromise,    \* TRUE when this._checkPromise is set
  checking,        \* where the checkInstallation call in progress stands
  changed,         \* the environment changed while that call was in progress
  report           \* what the last checkInstallation call returned, <<>> before

detection == <<environment, changes, isInstalled, version, checkPromise, checking,
               changed, report>>

\* the parts of the server a compose request does not touch
aside == <<childProcess, concurrent, processHandler, download, fileEndpoints,
           detection>>

\* everything of the server outside composeVideo
server == <<composeHandler, aside>>

vars == <<resourcesGiven, resources, options, outputPath, disk, pc, images,
          videos, audios, args, filterComplex, inputIndex, videoInputs,
          audioInputs, i, error, errorPath, pushedInputs, spawned, run,
          prevArgs, server>>

input == <<resourcesGiven, resources, options>>
partition == <<images, videos, audios>>
locals == <<args, filterComplex, inputIndex, videoInputs, audioInputs, i>>

\* path.join(outputDir, `composed_${Date.now()}.mp4`) of the n-th call
OutputPathOf(n) == "/output/composed_" \o ToString(n) \o ".mp4"

\* no compose request is being handled
NoComposeRequest ==
  /\ body = <<>> /\ handler = "none" /\ resIndex = 1
  /\ resourcePaths = <<>> /\ tempFiles = <<>> /\ response = <<>>
  /\ downloaded = 0

\* executeFFmpeg is not being followed event by event
NoChildProcess ==
  /\ allArgs = <<>> /\ child = <<>> /\ delivered = <<>>
  /\ stdout = "" /\ stderr = ""
  /\ promise = [state |-> "none"]

\* no concurrent compose requests are being followed
NoConcurrentRequests == now = 0 /\ inflight = <<>> /\ author = <<>>

\* no chain of operations is being handled
NoProcessRequest ==
  /\ opIndex = 1 /\ currentInputPath = <<>> /\ opOutputPath = <<>>
  /\ commands = <<>> /\ written = {}

\* no download is being followed request by request
NoDownload == remote = <<>> /\ location = "" /\ followed = 0 /\ fetch = "idle"

\* no request of the file endpoints is being followed
NoFileRequest == platform = "posix" /\ fileRequest = <<>> /\ before = {}

\* the encoder is there and no checkInstallation call is being followed
NoDetection ==
  /\ environment = "6.0" /\ changes = 0
  /\ isInstalled = FALSE /\ version = "" /\ checkPromise = FALSE
  /\ checking = "idle" /\ changed = FALSE /\ report = <<>>

Aside ==
  /\ NoChildProcess /\ NoConcurrentRequests /\ NoProcessRequest
  /\ NoDownload /\ NoFileRequest /\ NoDetection

Init ==
  /\ NoComposeRequest
  /\ Aside
  /\ resourcesGiven \in BOOLEAN
  /\ resources \in (IF resourcesGiven THEN ResourceLists ELSE {<<>>})
  /\ options \in OptionsPool
  /\ outputPath = OutputPathOf(1)
  /\ disk = UploadedFiles
  /\ pc = "idle"
  /\ images = <<>> /\ videos = <<>> /\ audios = <<>>
  /\ args = <<>> /\ filterComplex = <<>> /\ inputIndex = 0
  /\ videoInputs = <<>> /\ audioInputs = <<>> /\ i = 1
  /\ error = "" /\ errorPath = ""
  /\ pushedInputs = 0 /\ spawned = 0
  /\ run = 1
  /\ prevArgs = <<>>

\* fs.existsSync(p)
Exists(p) == Resolve(p) \in disk

\* throw new Error(...)
Throw(kind, path) ==
  /\ error' = kind
  /\ errorPath' = path
  /\ pc' = "done"

NoThrow == UNCHANGED <<error, errorPath>>

(***************************************************************************)
(* composeVideo, step by step                                              *)
(***************************************************************************)
\* Entry: the output directory exists and is writable (the server creates it
\* at start-up); an output file left at outputPath is deleted.
Begin ==
  /\ pc = "idle"
  /\ disk' = disk \ {Resolve(outputPath)}
  /\ pc' = "checkEmpty"
  /\ UNCHANGED <<server, input, outputPath, partition, locals, error, errorPath,
                 pushedInputs, spawned, run, prevArgs>>

\* if (!resources || resources.length === 0) throw
CheckEmpty ==
  /\ pc = "checkEmpty"
  /\ IF ~resourcesGiven \/ Len(resources) = 0
     THEN Throw("EmptyResourceList", "")
     ELSE pc' = "checkExists" /\ NoThrow
  /\ UNCHANGED <<server, input, outputPath, disk, partition, locals, pushedInputs,
                 spawned, run, prevArgs>>

\* only image files checked
MissingImages(rs) ==
  {k \in 1..Len(rs) : rs[k].type = "image" /\ ~Exists(rs[k].path)}

\* the positions of the resources whose path does not exist
Missing(rs) == {k \in 1..Len(rs) : ~Exists(rs[k].path)}

\* for (const resource of resources) if (!fs.existsSync(resource.path)) throw
CheckExists ==
  /\ pc = "checkExists"
  /\ IF Missing(resources) # {}
     THEN LET first == CHOOSE k \in Missing(resources) :
                         \A j \in Missing(resources) : k <= j
          IN  Throw("ResourceNotFound", resources[first].path)
     ELSE pc' = "partition" /\ NoThrow
  /\ UNCHANGED <<server, input, outputPath, disk, partition, locals, pushedInputs,
                 spawned, run, prevArgs>>

\* resources.forEach(...) into images, videos, audios
PartitionResources ==
  /\ pc = "partition"
  /\ images' = Partition(resources, "image")
  /\ videos' = Partition(resources, "video")
  /\ audios' = Partition(resources, "audio")
  /\ pc' = "checkVisual"
  /\ UNCHANGED <<server, input, outputPath, disk, locals, error, errorPath,
                 pushedInputs, spawned, run, prevArgs>>

\* || in place of &&
NoVisualContentEither(imgs, vids) == Len(imgs) = 0 \/ Len(vids) = 0

\* images.length === 0 && videos.length === 0
NoVisualContent(imgs, vids) == Len(imgs) = 0 /\ Len(vids) = 0

\* if (images.length === 0 && videos.length === 0) throw
CheckVisual ==
  /\ pc = "checkVisual"
  /\ IF NoVisualContent(images, videos)
     THEN Throw("NoVisualContent", "")
     ELSE pc' = "declare" /\ NoThrow
  /\ UNCHANGED <<server, input, outputPath, disk, partition, locals, pushedInputs,
                 spawned, run, prevArgs>>

\* the loop that runs after the images loop, the videos loop, the audios loop
AfterVideos == IF Len(audios) > 0 THEN "audios" ELSE "assemble"
AfterImages == IF Len(videos) > 0 THEN "videos" ELSE AfterVideos
AfterDeclare == IF Len(images) > 0 THEN "images" ELSE AfterImages

\* the index kept from the previous call
InitialInputIndexKept == inputIndex

\* let inputIndex = 0
InitialInputIndex == 0

\* const args = ['-y']; const filterComplex = []; let inputIndex = 0; ...
Declare ==
  /\ pc = "declare"
  /\ args' = <<"-y">>
  /\ filterComplex' = <<>>
  /\ inputIndex' = InitialInputIndex
  /\ videoInputs' = <<>>
  /\ audioInputs' = <<>>
  /\ i' = 1
  /\ pc' = AfterDeclare
  /\ UNCHANGED <<server, input, outputPath, disk, partition, error, errorPath,
                 pushedInputs, spawned, run, prevArgs>>

\* one round of images.forEach
ProcessImage ==
  /\ pc = "images"
  /\ LET img == images[i]
     IN  IF ~(Resolve(img.path) \in disk)
         THEN /\ Throw("ImageNotFound", Resolve(img.path))
              /\ UNCHANGED <<locals, pushedInputs>>
         ELSE /\ args' = args \o <<"-i", Resolve(img.path)>>
              /\ filterComplex' =
                   Append(filterComplex, ImageFilter(img, inputIndex, options))
              /\ videoInputs' =
                   Append(videoInputs, [index |-> inputIndex,
                                        duration |-> NumOr(img, "duration", 30)])
              /\ inputIndex' = inputIndex + 1
              /\ pushedInputs' = pushedInputs + 1
              /\ i' = IF i < Len(images) THEN i + 1 ELSE 1
              /\ pc' = IF i < Len(images) THEN "images" ELSE AfterImages
              /\ UNCHANGED audioInputs
              /\ NoThrow
  /\ UNCHANGED <<server, input, outputPath, disk, partition, spawned, run, prevArgs>>

\* one round of videos.forEach
ProcessVideo ==
  /\ pc = "videos"
  /\ LET vid == videos[i]
     IN  /\ args' = args \o InputArgs(vid)
         /\ filterComplex' =
              Append(filterComplex, VideoFilter(vid, inputIndex, options))
         /\ videoInputs' =
              Append(videoInputs,
                     IF Has(vid, "duration")
                     THEN [index |-> inputIndex, duration |-> vid.duration]
                     ELSE [index |-> inputIndex])
  /\ inputIndex' = inputIndex + 1
  /\ pushedInputs' = pushedInputs + 1
  /\ i' = IF i < Len(videos) THEN i + 1 ELSE 1
  /\ pc' = IF i < Len(videos) THEN "videos" ELSE AfterVideos
  /\ UNCHANGED <<server, input, outputPath, disk, partition, audioInputs, error,
                 errorPath, spawned, run, prevArgs>>

\* one round of audios.forEach
ProcessAudio ==
  /\ pc = "audios"
  /\ LET aud == audios[i]
         audioFilters == AudioFilters(aud)
     IN  /\ args' = args \o InputArgs(aud)
         /\ IF Len(audioFilters) > 0
            THEN /\ filterComplex' =
                      Append(filterComplex,
                             [ins |-> <<InputPad(inputIndex, "a")>>,
                              ops |-> audioFilters,
                              out |-> AudioLabel(inputIndex)])
                 /\ audioInputs' =
                      Append(audioInputs, [index |-> inputIndex,
                                           filterIndex |-> <<inputIndex>>])
            ELSE /\ UNCHANGED filterComplex
                 /\ audioInputs' =
                      Append(audioInputs, [index |-> inputIndex,
                                           filterIndex |-> <<>>])
  /\ inputIndex' = inputIndex + 1
  /\ pushedInputs' = pushedInputs + 1
  /\ i' = IF i < Len(audios) THEN i + 1 ELSE 1
  /\ pc' = IF i < Len(audios) THEN "audios" ELSE "assemble"
  /\ UNCHANGED <<server, input, outputPath, disk, partition, videoInputs, error,
                 errorPath, spawned, run, prevArgs>>

\* concat, amix and the -filter_complex argument
AssembleGraph ==
  /\ pc = "assemble"
  /\ filterComplex' = MixAudio(ConcatVideo(filterComplex, videoInputs), audioInputs)
  /\ args' = args \o FilterComplexArgs(filterComplex')
  /\ pc' = "output"
  /\ UNCHANGED <<server, input, outputPath, disk, partition, inputIndex, videoInputs,
                 audioInputs, i, error, errorPath, pushedInputs, spawned, run,
                 prevArgs>>

\* encoding flags, -map flags and the destination path
OutputArgs ==
  /\ pc = "output"
  /\ args' = args \o VideoEncodingArgs(options)
                  \o MapArgs(videoInputs, audioInputs, images, videos, options)
                  \o <<Resolve(outputPath)>>
  /\ pc' = "execute"
  /\ UNCHANGED <<server, input, outputPath, disk, partition, filterComplex, inputIndex,
                 videoInputs, audioInputs, i, error, errorPath, pushedInputs,
                 spawned, run, prevArgs>>

\* this.executeFFmpeg(args, ...): the encoder process is spawned
Execute ==
  /\ pc = "execute"
  /\ spawned' = spawned + 1
  /\ pc' = "running"
  /\ UNCHANGED <<server, input, outputPath, disk, partition, locals, error, errorPath,
                 pushedInputs, run, prevArgs>>

\* the process closes with exit code 0: the output file is written
ProcessSucceeds ==
  /\ pc = "running"
  /\ disk' = disk \cup {Resolve(outputPath)}
  /\ pc' = "done"
  /\ UNCHANGED <<server, input, outputPath, partition, locals, error, errorPath,
                 pushedInputs, spawned, run, prevArgs>>

\* a failed run started once more
ProcessFailsRetried ==
  /\ pc = "running"
  /\ IF spawned < 2
     THEN pc' = "execute" /\ NoThrow
     ELSE \E kind \in {"EncoderProcessFailure", "EncoderLaunchFailure"} :
            Throw(kind, "")
  /\ UNCHANGED <<server, input, outputPath, disk, partition, locals, pushedInputs,
                 spawned, run, prevArgs>>

\* the process closes with a non-zero code or cannot be launched
ProcessFails ==
  /\ pc = "running"
  /\ \E kind \in {"EncoderProcessFailure", "EncoderLaunchFailure"} :
       Throw(kind, "")
  /\ UNCHANGED <<server, input, outputPath, disk, partition, locals, pushedInputs,
                 spawned, run, prevArgs>>

\* the next call on the singleton, with the same resources and options
Rerun ==
  /\ pc = "done"
  /\ run < MaxRuns
  /\ run' = run + 1
  /\ outputPath' = OutputPathOf(run + 1)
  /\ prevArgs' = IF error \in {"", "EncoderProcessFailure", "EncoderLaunchFailure"}
                 THEN args ELSE <<>>
  /\ error' = "" /\ errorPath' = ""
  /\ pushedInputs' = 0 /\ spawned' = 0
  /\ pc' = "idle"
  /\ UNCHANGED <<server, input, disk, partition, locals>>

Next ==
  \/ Begin
  \/ CheckEmpty
  \/ CheckExists
  \/ PartitionResources
  \/ CheckVisual
  \/ Declare
  \/ ProcessImage
  \/ ProcessVideo
  \/ ProcessAudio
  \/ AssembleGraph
  \/ OutputArgs
  \/ Execute
  \/ ProcessSucceeds
  \/ ProcessFails

Spec == Init /\ [][Next]_vars

NextRerun == Next \/ Rerun

SpecRerun == Init /\ [][NextRerun]_vars

TypeOK ==
  /\ pc \in {"uncalled", "idle", "checkEmpty", "checkExists", "partition", "checkVisual",
             "declare", "images", "videos", "audios", "assemble", "output",
             "execute", "running", "done"}
  /\ error \in {"", "EmptyResourceList", "ResourceNotFound", "NoVisualContent",
                "ImageNotFound", "EncoderProcessFailure", "EncoderLaunchFailure"}
  /\ inputIndex \in 0..MaxLen
  /\ spawned \in 0..1

(***************************************************************************)
(* composeVideo called with one visual resource, or one image and one      *)
(* audio, whose presentation fields range over every case the builders     *)
(* distinguish                                                             *)
(***************************************************************************)
\* a field that is left out (<<>>) or given (<<value>>)
Opt(obj, field, choice) == IF choice = <<>> THEN obj ELSE With(obj, field, choice[1])

ScaleModes == {<<>>, <<"fit">>, <<"fill">>, <<"crop">>, <<"stretch">>}
Positions == {<<>>, <<"top-right">>}
Rotations == {<<>>, <<0>>, <<90>>}
Opacities == {<<>>, <<100>>, <<50>>, <<0>>}
Transitions ==
  {<<>>, <<"none">>, <<"fade">>, <<"fadeout">>, <<"slideLeft">>, <<"zoomOut">>,
   <<"wipe">>}
TransitionDurations == {<<>>, <<40>>, <<0>>, <<0 - 5>>}
VisualDurations == {<<>>, <<45>>}

VisualPool ==
  { Opt(Opt(Opt(Opt(Opt(Opt(Opt(
      [type |-> t, path |-> IF t = "image" THEN "/uploads/a.png" ELSE "/uploads/c.mp4"],
      "scaleMode", sm), "position", pos), "rotation", rot), "opacity", op),
      "transition", tr), "transitionDuration", td), "duration", dur) :
    t \in {"image", "video"}, sm \in ScaleModes, pos \in Positions,
    rot \in Rotations, op \in Opacities, tr \in Transitions,
    td \in TransitionDurations, dur \in VisualDurations }

Volumes == {<<>>, <<100>>, <<50>>, <<0>>, <<150>>}
Fades == {<<>>, <<"none">>, <<"fadein">>, <<"fadeout">>, <<"both">>, <<"wipe">>}
FadeDurations == {<<>>, <<20>>, <<0>>, <<0 - 10>>}
AudioDurations == {<<>>, <<10>>, <<100>>}

AudioPool ==
  { Opt(Opt(Opt(Opt([type |-> "audio", path |-> "/uploads/e.mp3"],
      "volume", vol), "fade", fade), "fadeDuration", fd), "duration", dur) :
    vol \in Volumes, fade \in Fades, fd \in FadeDurations, dur \in AudioDurations }

\* every option given, at its default
FragmentOptions == CHOOSE o \in OptionsPool : Has(o, "resolution")

FragmentLists ==
  { <<v>> : v \in VisualPool }
  \cup { <<[type |-> "image", path |-> "/uploads/a.png"], a>> : a \in AudioPool }

InitFragments ==
  /\ NoComposeRequest
  /\ Aside
  /\ resourcesGiven = TRUE
  /\ resources \in FragmentLists
  /\ options = FragmentOptions
  /\ outputPath = OutputPathOf(1)
  /\ disk = UploadedFiles
  /\ pc = "idle"
  /\ images = <<>> /\ videos = <<>> /\ audios = <<>>
  /\ args = <<>> /\ filterComplex = <<>> /\ inputIndex = 0
  /\ videoInputs = <<>> /\ audioInputs = <<>> /\ i = 1
  /\ error = "" /\ errorPath = ""
  /\ pushedInputs = 0 /\ spawned = 0
  /\ run = 1
  /\ prevArgs = <<>>

SpecFragments == InitFragments /\ [][Next]_vars

(***************************************************************************)
(* POST /api/compose                                                       *)
(***************************************************************************)
UploadsDir == "/uploads"
OutputDir == "/output"

\* new URL(url) does not throw
ValidUrls == {"http://h/a.png", "http://h/e.mp3", "http://h/c.mp4"}

\* path.extname(urlObj.pathname)
UrlExt(url) ==
  CASE url = "http://h/a.png" -> ".png"
    [] url = "http://h/e.mp3" -> ".mp3"
    [] OTHER -> ".mp4"

\* path.join(uploadsDir, `downloaded_${uniqueSuffix}${ext}`) of the n-th download
DownloadedPath(n, ext) == UploadsDir \o "/downloaded_" \o ToString(n) \o ext

\* resources of a request body
RequestResourcePool ==
  { [type |-> "image", url |-> "http://h/a.png", duration |-> 30],
    [type |-> "audio", url |-> "http://h/e.mp3", volume |-> 50],
    [type |-> "video", filename |-> "c.mp4"],
    [type |-> "text", url |-> "http://h/a.png"],
    [type |-> "image", duration |-> 30],
    [type |-> "video", filename |-> "gone.mp4"],
    [url |-> "http://h/c.mp4"],
    [type |-> "image", url |-> "not a url", duration |-> 30] }

RequestOptionsPool == { <<>>, [width |-> 640, height |-> 360, videoCodec |-> "mpeg4"] }

ComposeBodies ==
  { [options |-> o] : o \in RequestOptionsPool }
  \cup { [resources |-> r, options |-> o] :
           r \in UNION { [1..n -> RequestResourcePool] : n \in 0..MaxLen },
           o \in RequestOptionsPool }

\* the descriptor pushed to resourcePaths
ResourcePathOf(resource, filePath) ==
  LET base == [type |-> resource.type, path |-> filePath,
               transition |-> StrOr(resource, "transition", "none"),
               transitionDuration |-> NumOr(resource, "transitionDuration", 5),
               position |-> StrOr(resource, "position", "center"),
               scaleMode |-> StrOr(resource, "scaleMode", "fit"),
               rotation |-> NumOr(resource, "rotation", 0),
               opacity |-> NumDef(resource, "opacity", 100),
               fade |-> StrOr(resource, "fade", "none"),
               fadeDuration |-> NumOr(resource, "fadeDuration", 10),
               volume |-> NumDef(resource, "volume", 100)]
      withDuration == IF Has(resource, "duration")
                      THEN With(base, "duration", resource.duration) ELSE base
  IN  IF Has(resource, "startTime")
      THEN With(withDuration, "startTime", resource.startTime) ELSE withDuration

\* the options object passed to composeVideo
ComposeOptions(o) ==
  [resolution |-> IF NumOr(o, "width", 0) # 0 /\ NumOr(o, "height", 0) # 0
                  THEN <<o.width, o.height>>
                  ELSE IF Has(o, "resolution") THEN o.resolution
                  ELSE <<1280, 720>>,
   width |-> NumOr(o, "width", 1280), height |-> NumOr(o, "height", 720),
   fps |-> NumOr(o, "fps", 25),
   videoCodec |-> StrOr(o, "videoCodec", "libx264"),
   videoPreset |-> StrOr(o, "videoPreset", "medium"),
   videoCrf |-> NumDef(o, "videoCrf", 23),
   videoBitrate |-> StrOr(o, "videoBitrate", "2000k"),
   audioCodec |-> StrOr(o, "audioCodec", "aac"),
   audioBitrate |-> StrOr(o, "audioBitrate", "192k"),
   audioSampleRate |-> NumOr(o, "audioSampleRate", 44100),
   audioChannels |-> NumOr(o, "audioChannels", 2),
   backgroundColor |-> StrOr(o, "backgroundColor", "#000000")]

\* composeVideo has not been called
NotCalled ==
  /\ resourcesGiven = FALSE /\ resources = <<>> /\ options = <<>>
  /\ outputPath = "" /\ pc = "uncalled"
  /\ images = <<>> /\ videos = <<>> /\ audios = <<>>
  /\ args = <<>> /\ filterComplex = <<>> /\ inputIndex = 0
  /\ videoInputs = <<>> /\ audioInputs = <<>> /\ i = 1
  /\ error = "" /\ errorPath = ""
  /\ pushedInputs = 0 /\ spawned = 0
  /\ run = 1
  /\ prevArgs = <<>>

encoderCall == <<resourcesGiven, resources, options, outputPath, pc, images,
                 videos, audios, args, filterComplex, inputIndex, videoInputs,
                 audioInputs, i, error, errorPath, pushedInputs, spawned, run,
                 prevArgs>>

InitCompose ==
  /\ NotCalled
  /\ Aside
  /\ disk = UploadedFiles
  /\ body \in ComposeBodies
  /\ handler = "received"
  /\ resIndex = 1
  /\ resourcePaths = <<>> /\ tempFiles = <<>> /\ response = <<>>
  /\ downloaded = 0

\* return res.status(status).json({ error }) : nothing else is done
Respond(status, kind) ==
  /\ response' = [status |-> status, error |-> kind]
  /\ handler' = "responded"

\* if (!Array.isArray(resources) || resources.length === 0) return 400
ReceiveCompose ==
  /\ handler = "received"
  /\ IF ~Has(body, "resources") \/ Len(body.resources) = 0
     THEN Respond(400, "EmptyResourceList")
     ELSE handler' = "loop" /\ UNCHANGED response
  /\ UNCHANGED <<aside, body, resIndex, resourcePaths, tempFiles, downloaded, disk,
                 encoderCall>>

\* one iteration of the resource loop, up to the await of the download
HandleResource ==
  /\ handler = "loop"
  /\ resIndex <= Len(body.resources)
  /\ LET resource == body.resources[resIndex]
         filePath == UploadsDir \o "/" \o resource.filename
     IN  IF StrOr(resource, "type", "") = ""
         THEN Respond(400, "MissingType") /\ UNCHANGED <<resIndex, resourcePaths>>
         ELSE IF resource.type \notin {"image", "video", "audio"}
         THEN Respond(400, "UnsupportedType") /\ UNCHANGED <<resIndex, resourcePaths>>
         ELSE IF StrOr(resource, "url", "") # ""
         THEN IF resource.url \notin ValidUrls
              THEN Respond(400, "InvalidUrl") /\ UNCHANGED <<resIndex, resourcePaths>>
              ELSE /\ handler' = "downloading"
                   /\ UNCHANGED <<response, resIndex, resourcePaths>>
         ELSE IF StrOr(resource, "filename", "") # ""
         THEN IF filePath \notin disk
              THEN Respond(404, "FileNotFound") /\ UNCHANGED <<resIndex, resourcePaths>>
              ELSE /\ resourcePaths' = Append(resourcePaths,
                                              ResourcePathOf(resource, filePath))
                   /\ resIndex' = resIndex + 1
                   /\ UNCHANGED <<handler, response>>
         ELSE Respond(400, "MissingSource") /\ UNCHANGED <<resIndex, resourcePaths>>
  /\ UNCHANGED <<aside, body, tempFiles, downloaded, disk, encoderCall>>

\* downloadFromUrl resolves: the file is in uploadsDir and recorded in tempFiles
DownloadSucceeds ==
  /\ handler = "downloading"
  /\ LET resource == body.resources[resIndex]
         filePath == DownloadedPath(downloaded + 1, UrlExt(resource.url))
     IN  /\ disk' = disk \cup {filePath}
         /\ tempFiles' = Append(tempFiles, filePath)
         /\ resourcePaths' = Append(resourcePaths, ResourcePathOf(resource, filePath))
  /\ downloaded' = downloaded + 1
  /\ resIndex' = resIndex + 1
  /\ handler' = "loop"
  /\ UNCHANGED <<aside, body, response, encoderCall>>

\* downloadFromUrl rejects (non-200 status, request error, timeout)
DownloadFails ==
  /\ handler = "downloading"
  /\ Respond(500, "DownloadFailure")
  /\ UNCHANGED <<aside, body, resIndex, resourcePaths, tempFiles, downloaded, disk,
                 encoderCall>>

\* await ffmpeg.composeVideo(resourcePaths, outputPath, {...})
CallComposeVideo ==
  /\ handler = "loop"
  /\ resIndex > Len(body.resources)
  /\ resourcesGiven' = TRUE
  /\ resources' = resourcePaths
  /\ options' = ComposeOptions(body.options)
  /\ outputPath' = OutputPathOf(run)
  /\ pc' = "idle"
  /\ handler' = "composing"
  /\ UNCHANGED <<aside, body, resIndex, resourcePaths, tempFiles, response, downloaded,
                 disk, partition, locals, error, errorPath, pushedInputs,
                 spawned, run, prevArgs>>

\* tempFiles.forEach(f => { if (fs.existsSync(f)) fs.unlinkSync(f) })
Cleaned(files) == {p \in disk : \A k \in 1..Len(files) : files[k] # p}

\* composeVideo resolved: clean up, then res.json({ success: true, ... })
ComposeResolves ==
  /\ handler = "composing"
  /\ pc = "done" /\ error = ""
  /\ disk' = Cleaned(tempFiles)
  /\ response' = [status |-> 200, error |-> "", outputFile |-> outputPath,
                  command |-> args]
  /\ handler' = "responded"
  /\ UNCHANGED <<aside, body, resIndex, resourcePaths, tempFiles, downloaded,
                 encoderCall>>

\* composeVideo rejected: the catch block cleans up, then answers 500
ComposeRejects ==
  /\ handler = "composing"
  /\ pc = "done" /\ error # ""
  /\ disk' = Cleaned(tempFiles)
  /\ Respond(500, error)
  /\ UNCHANGED <<aside, body, resIndex, resourcePaths, tempFiles, downloaded,
                 encoderCall>>

NextCompose ==
  \/ ReceiveCompose
  \/ HandleResource
  \/ DownloadSucceeds
  \/ DownloadFails
  \/ CallComposeVideo
  \/ Next
  \/ ComposeResolves
  \/ ComposeRejects

SpecCompose == InitCompose /\ [][NextCompose]_vars

(***************************************************************************)
(* executeFFmpeg, event by event                                           *)
(***************************************************************************)
MaxChunks == 2   \* 'data' events of one process

Command == "ffmpeg"

\* `"${command}" ${allArgs.join(' ')}`
CommandStr(a) == "\"" \o Command \o "\" " \o Join(a, " ")

ArgLists == { <<"-version">>, <<"-y", "-i", "/uploads/c.mp4", "/output/o.mp4">> }

DataEvents ==
  { [ev |-> "stdout", data |-> "out;"],
    [ev |-> "stderr", data |-> "time=00:00:01.00;"],
    [ev |-> "stderr", data |-> "Invalid argument;"] }

\* how a child process ends: it exits (code 0, code 1, or killed by a signal,
\* code null held as -1), or it cannot be spawned, and then Node emits
\* 'error' followed by 'close' with the negative errno
Endings ==
  { <<[ev |-> "close", code |-> 0]>>,
    <<[ev |-> "close", code |-> 1]>>,
    <<[ev |-> "close", code |-> 0 - 1]>>,
    <<[ev |-> "error", message |-> "spawn ffmpeg ENOENT"],
      [ev |-> "close", code |-> 0 - 2]>> }

ChildScripts ==
  { d \o e : d \in UNION { [1..n -> DataEvents] : n \in 0..MaxChunks },
             e \in Endings }

\* everything executeFFmpeg leaves alone
outsideChild == <<encoderCall, disk, composeHandler, concurrent, processHandler,
                  download, fileEndpoints, detection>>

InitExecute ==
  /\ NotCalled
  /\ NoFileRequest
  /\ NoDetection
  /\ NoComposeRequest
  /\ NoConcurrentRequests
  /\ NoProcessRequest
  /\ NoDownload
  /\ disk = UploadedFiles
  /\ allArgs \in ArgLists
  /\ child = <<>> /\ delivered = <<>>
  /\ stdout = "" /\ stderr = ""
  /\ promise = [state |-> "none"]

\* new Promise(...): spawn(command, allArgs, ...) and the listeners
Spawn ==
  /\ promise.state = "none"
  /\ child' \in ChildScripts
  /\ promise' = [state |-> "pending"]
  /\ UNCHANGED <<allArgs, delivered, stdout, stderr, outsideChild>>

\* every resolve / reject call replaces the outcome
SettleLast(p, outcome) == outcome

\* resolve(value) / reject(reason): only a pending promise is settled
Settle(p, outcome) == IF p.state = "pending" THEN outcome ELSE p

\* the event at the head of the child's script is emitted
Emitted(kind) ==
  /\ promise.state # "none"
  /\ Len(child) > 0
  /\ child[1].ev = kind
  /\ child' = Tail(child)
  /\ delivered' = Append(delivered, child[1])

\* ffmpegProcess.stdout.on('data', ...)
OnStdoutData ==
  /\ Emitted("stdout")
  /\ stdout' = stdout \o child[1].data
  /\ UNCHANGED <<allArgs, stderr, promise, outsideChild>>

\* ffmpegProcess.stderr.on('data', ...)
OnStderrData ==
  /\ Emitted("stderr")
  /\ stderr' = stderr \o child[1].data
  /\ UNCHANGED <<allArgs, stdout, promise, outsideChild>>

\* ffmpegProcess.on('close', (code) => ...)
OnClose ==
  /\ Emitted("close")
  /\ promise' =
       IF child[1].code = 0
       THEN Settle(promise, [state |-> "fulfilled",
                             command |-> CommandStr(allArgs),
                             stdout |-> stdout, stderr |-> stderr])
       ELSE Settle(promise, [state |-> "rejected",
                             kind |-> "EncoderProcessFailure",
                             code |-> child[1].code,
                             text |-> IF stderr # "" THEN stderr ELSE stdout])
  /\ UNCHANGED <<allArgs, stdout, stderr, outsideChild>>

\* ffmpegProcess.on('error', (err) => ...)
OnError ==
  /\ Emitted("error")
  /\ promise' = Settle(promise, [state |-> "rejected",
                                 kind |-> "EncoderLaunchFailure",
                                 text |-> child[1].message])
  /\ UNCHANGED <<allArgs, stdout, stderr, outsideChild>>

NextExecute ==
  \/ Spawn
  \/ OnStdoutData
  \/ OnStderrData
  \/ OnClose
  \/ OnError

SpecExecute == InitExecute /\ [][NextExecute]_vars

(***************************************************************************)
(* Concurrent POST /api/compose requests and their output files            *)
(***************************************************************************)
MaxRequests == 2   \* compose requests in flight together
MaxClock == 2      \* milliseconds the clock advances

Requests == 1..MaxRequests

\* everything the output files of concurrent requests do not depend on
outsideConcurrent == <<encoderCall, composeHandler, childProcess, processHandler,
                       download, fileEndpoints, detection>>

InitConcurrent ==
  /\ NotCalled
  /\ NoFileRequest
  /\ NoDetection
  /\ NoComposeRequest
  /\ NoChildProcess
  /\ NoProcessRequest
  /\ NoDownload
  /\ disk = UploadedFiles
  /\ now = 0
  /\ inflight = [r \in Requests |-> [at |-> "validated", outputPath |-> ""]]
  /\ author = <<>>

\* the clock advances by a millisecond
Tick ==
  /\ now < MaxClock
  /\ now' = now + 1
  /\ UNCHANGED <<inflight, author, disk, outsideConcurrent>>

At(r, at) == [inflight EXCEPT ![r].at = at]

\* outputFilename = `composed_${Date.now()}.mp4`, after the resource loop
NameOutput(r) ==
  /\ inflight[r].at = "validated"
  /\ inflight' = [inflight EXCEPT ![r] = [at |-> "named",
                                          outputPath |-> OutputPathOf(now)]]
  /\ UNCHANGED <<now, author, disk, outsideConcurrent>>

\* the function without the entry of path
Without(f, path) == [q \in DOMAIN f \ {path} |-> f[q]]

\* composeVideo entry: if (fs.existsSync(outputPath)) fs.unlinkSync(outputPath)
DeleteExistingOutput(r) ==
  /\ inflight[r].at = "named"
  /\ disk' = disk \ {inflight[r].outputPath}
  /\ author' = Without(author, inflight[r].outputPath)
  /\ inflight' = At(r, "encoding")
  /\ UNCHANGED <<now, outsideConcurrent>>

\* the encoder (started with -y) writes the output file of the request
EncoderWrites(r) ==
  /\ inflight[r].at = "encoding"
  /\ disk' = disk \cup {inflight[r].outputPath}
  /\ author' = [q \in DOMAIN author \cup {inflight[r].outputPath} |->
                  IF q = inflight[r].outputPath THEN r ELSE author[q]]
  /\ inflight' = At(r, "written")
  /\ UNCHANGED <<now, outsideConcurrent>>

\* the encoder fails: composeVideo rejects and the handler answers 500
EncoderFails(r) ==
  /\ inflight[r].at = "encoding"
  /\ inflight' = At(r, "failed")
  /\ UNCHANGED <<now, author, disk, outsideConcurrent>>

\* res.json({ success: true, outputFile, path, command })
AnswerCompose(r) ==
  /\ inflight[r].at = "written"
  /\ inflight' = At(r, "answered")
  /\ UNCHANGED <<now, author, disk, outsideConcurrent>>

NextConcurrent ==
  \/ Tick
  \/ \E r \in Requests : NameOutput(r)
  \/ \E r \in Requests : DeleteExistingOutput(r)
  \/ \E r \in Requests : EncoderWrites(r)
  \/ \E r \in Requests : EncoderFails(r)
  \/ \E r \in Requests : AnswerCompose(r)

SpecConcurrent == InitConcurrent /\ [][NextConcurrent]_vars

(***************************************************************************)
(* POST /api/process                                                       *)
(***************************************************************************)
MaxOps == 3   \* longest chain of operations of a request

\* a path held as directory, base name and extension, and its text
FilePath(dir, name, ext) == [dir |-> dir, name |-> name, ext |-> ext]
PathText(p) == p.dir \o "/" \o p.name \o (IF p.ext = "" THEN "" ELSE "." \o p.ext)

\* path.parse(filename) of the file names a request can carry
UploadNames ==
  { FilePath(UploadsDir, "c", "mp4"), FilePath(UploadsDir, "a", "png"),
    FilePath(UploadsDir, "gone", "mp4") }

OperationPool ==
  { [type |-> "convert", params |-> [format |-> "avi"]],
    [type |-> "resize", params |-> [width |-> 640, height |-> 360]],
    [type |-> "extractFrame", params |-> <<>>],
    [type |-> "extractAudio", params |-> [format |-> "wav"]],
    [type |-> "addWatermark", params |-> [watermarkPath |-> "a.png"]],
    [type |-> "addWatermark", params |-> [watermarkPath |-> "gone.png"]],
    [type |-> "rotate", params |-> <<>>],
    [params |-> <<>>] }

ProcessBodies ==
  { [operations |-> <<[type |-> "convert", params |-> <<>>]>>] }
  \cup { [filename |-> f] : f \in UploadNames }
  \cup { [filename |-> f, operations |-> ops] :
           f \in UploadNames,
           ops \in UNION { [1..n -> OperationPool] : n \in 0..MaxOps } }

\* everything the chain handler leaves alone
outsideProcess == <<encoderCall, resIndex, resourcePaths, downloaded,
                    childProcess, concurrent, download, fileEndpoints, detection>>

InitProcess ==
  /\ NotCalled
  /\ NoFileRequest
  /\ NoDetection
  /\ NoChildProcess
  /\ NoConcurrentRequests
  /\ NoDownload
  /\ disk = UploadedFiles
  /\ body \in ProcessBodies
  /\ handler = "received"
  /\ resIndex = 1 /\ resourcePaths = <<>> /\ downloaded = 0
  /\ tempFiles = <<>> /\ response = <<>>
  /\ opIndex = 1 /\ currentInputPath = <<>> /\ opOutputPath = <<>>
  /\ commands = <<>> /\ written = {}

\* the three checks before the chain starts
ReceiveProcess ==
  /\ handler = "received"
  /\ IF ~Has(body, "filename")
     THEN Respond(400, "MissingFilename") /\ UNCHANGED currentInputPath
     ELSE IF ~Has(body, "operations") \/ Len(body.operations) = 0
     THEN Respond(400, "EmptyOperations") /\ UNCHANGED currentInputPath
     ELSE IF PathText(body.filename) \notin disk
     THEN Respond(404, "FileNotFound") /\ UNCHANGED currentInputPath
     ELSE /\ currentInputPath' = body.filename
          /\ handler' = "chain"
          /\ UNCHANGED response
  /\ UNCHANGED <<body, tempFiles, opIndex, opOutputPath, commands, written,
                 disk, outsideProcess>>

\* the output path the handler computes for operation k (index k - 1)
OperationOutput(k) ==
  LET params == body.operations[k].params
  IN  IF k = Len(body.operations)
      THEN FilePath(OutputDir, "processed_" \o ToString(now) \o "_" \o body.filename.name,
                    IF StrOr(params, "format", "") # "" THEN params.format
                    ELSE body.filename.ext)
      ELSE FilePath(OutputDir, "temp_" \o ToString(now) \o "_" \o ToString(k - 1),
                    IF currentInputPath.ext # "" THEN currentInputPath.ext ELSE "mp4")

\* outputPath.replace(/\.[^.]+$/, `.${ext}`) of a path that has an extension
ReplaceExt(p, ext) == FilePath(p.dir, p.name, ext)

\* outputPath used as computed, the extension of a frame or an audio track
\* not replaced
OperationTargetUnrenamed(op, out) == out

\* the path the operation of the given type is asked to write
OperationTarget(op, out) ==
  IF op.type = "extractFrame" THEN ReplaceExt(out, StrOr(op.params, "format", "jpg"))
  ELSE IF op.type = "extractAudio" THEN ReplaceExt(out, StrOr(op.params, "format", "mp3"))
  ELSE out

\* the inner catch: every temp file still on disk is unlinked; then 500
FailChain(files, kind) ==
  /\ disk' = Cleaned(files)
  /\ Respond(500, kind)

\* one iteration of the chain, up to the await of the operation
StartOperation ==
  /\ handler = "chain"
  /\ opIndex <= Len(body.operations)
  /\ LET op == body.operations[opIndex]
         out == OperationOutput(opIndex)
         pushed == IF opIndex = Len(body.operations) THEN tempFiles
                   ELSE Append(tempFiles, PathText(out))
     IN  IF StrOr(op, "type", "") = ""
         THEN /\ FailChain(tempFiles, "MissingType")
              /\ UNCHANGED <<tempFiles, opOutputPath>>
         ELSE /\ tempFiles' = pushed
              /\ IF op.type \in {"convert", "resize", "crop", "extractFrame",
                                 "extractAudio", "imageToVideo"}
                 THEN /\ opOutputPath' = OperationTarget(op, out)
                      /\ handler' = "operating"
                      /\ UNCHANGED <<disk, response>>
                 ELSE IF op.type = "addWatermark"
                 THEN IF StrOr(op.params, "watermarkPath", "") = ""
                         \/ (UploadsDir \o "/" \o op.params.watermarkPath) \notin disk
                      THEN /\ FailChain(pushed, "WatermarkNotFound")
                           /\ UNCHANGED opOutputPath
                      ELSE /\ opOutputPath' = out
                           /\ handler' = "operating"
                           /\ UNCHANGED <<disk, response>>
                 ELSE /\ FailChain(pushed, "UnsupportedOperation")
                      /\ UNCHANGED opOutputPath
  /\ UNCHANGED <<body, opIndex, currentInputPath, commands, written,
                 outsideProcess>>

\* what a resolved ffmpeg operation (convert, resize, crop, extractFrame,
\* extractAudio, addWatermark, imageToVideo) has done: written its output
OperationEffect(files, out) == files \cup {PathText(out)}

\* the input of the finished operation unlinked whatever it is
OperationResolvesUnlinksInput ==
  /\ handler = "operating"
  /\ disk' = OperationEffect(disk, opOutputPath) \ {PathText(currentInputPath)}
  /\ commands' = Append(commands, [type |-> body.operations[opIndex].type,
                                   input |-> currentInputPath,
                                   output |-> opOutputPath])
  /\ written' = IF opIndex < Len(body.operations)
                THEN written \cup {PathText(opOutputPath)} ELSE written
  /\ currentInputPath' = opOutputPath
  /\ opIndex' = opIndex + 1
  /\ handler' = "chain"
  /\ UNCHANGED <<body, tempFiles, response, opOutputPath, outsideProcess>>

\* the awaited operation resolves; the previous intermediate is unlinked
OperationResolves ==
  /\ handler = "operating"
  /\ LET after == OperationEffect(disk, opOutputPath)
     IN  disk' = IF opIndex > 1 /\ currentInputPath # body.filename
                 THEN after \ {PathText(currentInputPath)}
                 ELSE after
  /\ commands' = Append(commands, [type |-> body.operations[opIndex].type,
                                   input |-> currentInputPath,
                                   output |-> opOutputPath])
  /\ written' = IF opIndex < Len(body.operations)
                THEN written \cup {PathText(opOutputPath)} ELSE written
  /\ currentInputPath' = opOutputPath
  /\ opIndex' = opIndex + 1
  /\ handler' = "chain"
  /\ UNCHANGED <<body, tempFiles, response, opOutputPath, outsideProcess>>

\* the awaited operation rejects: inner catch, then the outer one answers 500
OperationRejects ==
  /\ handler = "operating"
  /\ FailChain(tempFiles, "OperationFailure")
  /\ UNCHANGED <<body, tempFiles, opIndex, currentInputPath, opOutputPath,
                 commands, written, outsideProcess>>

\* after the loop: temp files other than the result are unlinked; res.json
FinishProcess ==
  /\ handler = "chain"
  /\ opIndex > Len(body.operations)
  /\ disk' = {p \in disk :
                \/ p = PathText(currentInputPath)
                \/ \A k \in 1..Len(tempFiles) : tempFiles[k] # p}
  /\ response' = [status |-> 200, error |-> "",
                  outputFile |-> PathText(currentInputPath),
                  commands |-> commands]
  /\ handler' = "responded"
  /\ UNCHANGED <<body, tempFiles, opIndex, currentInputPath, opOutputPath,
                 commands, written, outsideProcess>>

NextProcess ==
  \/ ReceiveProcess
  \/ StartOperation
  \/ OperationResolves
  \/ OperationRejects
  \/ FinishProcess

SpecProcess == InitProcess /\ [][NextProcess]_vars

(***************************************************************************)
(* downloadFromUrl                                                         *)
(***************************************************************************)
MaxFollowed == 7   \* redirects up to which a download is followed here

Urls == {"http://h/a.png", "http://h/e.mp3", "http://h/c.mp4"}

\* what a remote server can answer: a status with or without a Location
\* header, or nothing within the 60 s (status 0)
Answers ==
  { [status |-> 200], [status |-> 404], [status |-> 302], [status |-> 0] }
  \cup { [status |-> 302, location |-> u] : u \in Urls }

\* everything a download leaves alone
outsideDownload == <<encoderCall, body, handler, resIndex, resourcePaths,
                     tempFiles, response, childProcess, concurrent,
                     processHandler, fileEndpoints, detection>>

InitDownload ==
  /\ NotCalled
  /\ NoFileRequest
  /\ NoDetection
  /\ NoComposeRequest
  /\ NoChildProcess
  /\ NoConcurrentRequests
  /\ NoProcessRequest
  /\ disk = UploadedFiles
  /\ remote \in [Urls -> Answers]
  /\ location \in Urls
  /\ followed = 0
  /\ fetch = "idle"

\* protocol.get(url, options, callback)
SendRequest ==
  /\ fetch = "idle"
  /\ fetch' = "requesting"
  /\ UNCHANGED <<remote, location, followed, downloaded, disk, outsideDownload>>

IsRedirect(answer) ==
  answer.status >= 300 /\ answer.status < 400 /\ Has(answer, "location")

\* a 3xx answer with a Location: downloadFromUrl(location) settles this one
FollowRedirect ==
  /\ fetch = "requesting"
  /\ IsRedirect(remote[location])
  /\ followed < MaxFollowed
  /\ location' = remote[location].location
  /\ followed' = followed + 1
  /\ UNCHANGED <<remote, fetch, downloaded, disk, outsideDownload>>

\* any other answer that is not 200: reject(`下载失败: HTTP ${statusCode}`)
RejectStatus ==
  /\ fetch = "requesting"
  /\ remote[location].status \notin {0, 200}
  /\ ~IsRedirect(remote[location])
  /\ fetch' = "rejected"
  /\ UNCHANGED <<remote, location, followed, downloaded, disk, outsideDownload>>

\* request.on('timeout'): request.destroy() and reject('下载超时')
RequestTimeout ==
  /\ fetch = "requesting"
  /\ remote[location].status = 0
  /\ fetch' = "rejected"
  /\ UNCHANGED <<remote, location, followed, downloaded, disk, outsideDownload>>

\* a 200 answer: the body is piped to a new file of uploadsDir; resolve
SaveFile ==
  /\ fetch = "requesting"
  /\ remote[location].status = 200
  /\ disk' = disk \cup {DownloadedPath(downloaded + 1, UrlExt(location))}
  /\ downloaded' = downloaded + 1
  /\ fetch' = "resolved"
  /\ UNCHANGED <<remote, location, followed, outsideDownload>>

NextDownload ==
  \/ SendRequest
  \/ FollowRedirect
  \/ RejectStatus
  \/ RequestTimeout
  \/ SaveFile

SpecDownload == InitDownload /\ [][NextDownload]_vars

(***************************************************************************)
(* DELETE /api/files/delete and DELETE /api/files/clear                    *)
(***************************************************************************)
\* a path held as its components below the application directory
SegmentsText(segs) == "/" \o Join(segs, "/")

\* directories of the application directory (they exist, and are no files)
Directories == {<<"uploads">>, <<"output">>, <<"uploads", "sub">>, <<"uploads_old">>}

\* files next to and below the two directories when a request arrives
OtherFiles ==
  {"/output/composed_1.mp4", "/uploads/a..b.mp4", "/uploads/sub/x.mp4",
   "/uploads_old/y.mp4", "/server.js"}

\* names an entry of a directory can have
EntryNames ==
  {"a.png", "b.png", "c.mp4", "d.mp4", "e.mp3", "a..b.mp4", "sub", "x.mp4",
   "y.mp4", "composed_1.mp4", "server.js"}

\* a file name of a request: its components and the separator between them
FileName(parts, sep) == [parts |-> parts, sep |-> sep]

FileNamePool ==
  { FileName(<<"a.png">>, ""), FileName(<<"gone.mp4">>, ""),
    FileName(<<"composed_1.mp4">>, ""), FileName(<<"sub">>, ""),
    FileName(<<"a..b.mp4">>, ""), FileName(<<>>, ""),
    FileName(<<"..", "server.js">>, "/"), FileName(<<"..", "server.js">>, "\\"),
    FileName(<<"sub", "x.mp4">>, "/"), FileName(<<"sub", "x.mp4">>, "\\"),
    FileName(<<"..", "uploads_old", "y.mp4">>, "/") }

DirectoryPool == {"uploads", "output", "uploads_old", ""}

FileRequests ==
  { [endpoint |-> "delete", filename |-> f] : f \in FileNamePool }
  \cup { [endpoint |-> "delete", directory |-> d, filename |-> f] :
           d \in DirectoryPool, f \in FileNamePool }
  \cup { [endpoint |-> "delete", directory |-> d] : d \in DirectoryPool }
  \cup { [endpoint |-> "clear", directory |-> d] : d \in DirectoryPool }
  \cup { [endpoint |-> "clear"] }

\* filename.includes('..')
IncludesDotDot(f) ==
  \E k \in 1..Len(f.parts) : f.parts[k] \in {"..", "a..b.mp4"}

\* filename.includes(sep)
IncludesSeparator(f, sep) == Len(f.parts) > 1 /\ f.sep = sep

\* a check of '..' alone
IllegalFileNameDotsOnly(f) == IncludesDotDot(f)

\* filename.includes('..') || filename.includes('/') || filename.includes('\\')
IllegalFileName(f) ==
  IncludesDotDot(f) \/ IncludesSeparator(f, "/") \/ IncludesSeparator(f, "\\")

\* the components path.join sees in a file name: '/' separates everywhere,
\* '\' only on win32 (elsewhere it is a character of the name)
Components(f, os) ==
  IF Len(f.parts) <= 1 \/ f.sep = "/" \/ os = "win32" THEN f.parts
  ELSE <<Join(f.parts, f.sep)>>

\* path.join(dirPath, filename): '..' steps back one component
RECURSIVE Normalize(_, _)
Normalize(done, rest) ==
  IF Len(rest) = 0 THEN done
  ELSE IF rest[1] = ".."
  THEN Normalize(IF Len(done) = 0 THEN done ELSE SubSeq(done, 1, Len(done) - 1),
                 Tail(rest))
  ELSE Normalize(Append(done, rest[1]), Tail(rest))

\* filePath.startsWith(dirPath), on the text of the two paths
StartsWith(segs, dir) ==
  /\ Len(segs) >= 1
  /\ \/ segs[1] = dir
     \/ dir = "uploads" /\ segs[1] = "uploads_old"

\* fs.existsSync(path)
ExistsAt(segs) == SegmentsText(segs) \in disk \/ segs \in Directories

\* everything the file endpoints leave alone
outsideFiles == <<encoderCall, body, handler, resIndex, resourcePaths,
                  tempFiles, downloaded, childProcess, concurrent,
                  processHandler, download, detection>>

InitFiles ==
  /\ NotCalled
  /\ NoComposeRequest
  /\ NoChildProcess /\ NoConcurrentRequests /\ NoProcessRequest /\ NoDownload
  /\ NoDetection
  /\ disk = UploadedFiles \cup OtherFiles
  /\ platform \in {"posix", "win32"}
  /\ fileRequest = <<>>
  /\ before = {}

\* res.status(status).json({ success, ... })
Answer(status) == response' = [status |-> status, error |-> ""]

\* DELETE /api/files/delete with body { directory, filename }
DeleteFile ==
  \E request \in {q \in FileRequests : q.endpoint = "delete"} :
    /\ fileRequest' = request
    /\ before' = disk
    /\ IF StrOr(request, "directory", "") \notin {"uploads", "output"}
       THEN Answer(400) /\ UNCHANGED disk
       ELSE IF ~Has(request, "filename") \/ Len(request.filename.parts) = 0
       THEN Answer(400) /\ UNCHANGED disk
       ELSE IF IllegalFileName(request.filename)
       THEN Answer(400) /\ UNCHANGED disk
       ELSE LET filePath == Normalize(<<request.directory>>,
                                      Components(request.filename, platform))
            IN  IF ~StartsWith(filePath, request.directory)
                THEN Answer(400) /\ UNCHANGED disk
                ELSE IF ~ExistsAt(filePath)
                THEN Answer(404) /\ UNCHANGED disk
                ELSE IF filePath \in Directories
                THEN Answer(500) /\ UNCHANGED disk
                ELSE /\ disk' = disk \ {SegmentsText(filePath)}
                     /\ Answer(200)
    /\ UNCHANGED <<platform, outsideFiles>>

\* DELETE /api/files/clear?directory=...
ClearDirectory ==
  \E request \in {q \in FileRequests : q.endpoint = "clear"} :
    /\ fileRequest' = request
    /\ before' = disk
    /\ IF StrOr(request, "directory", "") \notin {"uploads", "output"}
       THEN Answer(400) /\ UNCHANGED disk
       ELSE LET files == {n \in EntryNames : ExistsAt(<<request.directory, n>>)}
                isFile == {n \in files : <<request.directory, n>> \notin Directories}
            IN  /\ disk' = disk \ {SegmentsText(<<request.directory, n>>) : n \in isFile}
                /\ Answer(200)
    /\ UNCHANGED <<platform, outsideFiles>>

NextFiles ==
  \/ DeleteFile
  \/ ClearDirectory

SpecFiles == InitFiles /\ [][NextFiles]_vars

(***************************************************************************)
(* FFmpeg.checkCommand / ensureChecked / checkInstallation, with an        *)
(* environment in which the encoder comes and goes                         *)
(***************************************************************************)
MaxChanges == 2   \* changes of the environment followed

\* what the -version command can print: nothing when FFmpeg is missing
Environments == {"", "6.0", "7.1"}

\* everything the detection leaves alone
outsideDetection == <<encoderCall, disk, composeHandler, childProcess, concurrent,
                      processHandler, download, fileEndpoints>>

InitDetection ==
  /\ NotCalled
  /\ NoComposeRequest
  /\ NoChildProcess /\ NoConcurrentRequests /\ NoProcessRequest /\ NoDownload
  /\ NoFileRequest
  /\ disk = UploadedFiles
  /\ environment \in Environments /\ changes = 0
  /\ isInstalled = FALSE /\ version = "" /\ checkPromise = FALSE
  /\ checking = "idle" /\ changed = FALSE /\ report = <<>>

\* FFmpeg is installed, removed or replaced
EnvironmentChanges ==
  /\ changes < MaxChanges
  /\ changes' = changes + 1
  /\ environment' \in Environments \ {environment}
  /\ changed' = (checking # "idle")
  /\ UNCHANGED <<isInstalled, version, checkPromise, checking, report,
                 outsideDetection>>

\* checkCommand once its execAsync has settled: the two fields it assigns
checkCommand ==
  /\ isInstalled' = (environment # "")
  /\ version' = IF environment # "" THEN environment ELSE version

\* return { installed, version, message }
Return(installed, v) ==
  /\ report' = [installed |-> installed, version |-> v,
                environment |-> environment, changed |-> changed]
  /\ checking' = "idle"

\* checkInstallation is called; ensureChecked starts checkCommand unless
\* _checkPromise is set
CallCheckInstallation ==
  /\ checking = "idle"
  /\ changed' = FALSE
  /\ IF checkPromise
     THEN checking' = "ensured" /\ UNCHANGED checkPromise
     ELSE checking' = "detecting" /\ checkPromise' = TRUE
  /\ UNCHANGED <<environment, changes, isInstalled, version, report,
                 outsideDetection>>

\* await this._checkPromise of ensureChecked
EnsureCheckedResolves ==
  /\ checking = "detecting"
  /\ checkCommand
  /\ checking' = "ensured"
  /\ UNCHANGED <<environment, changes, checkPromise, changed, report,
                 outsideDetection>>

\* if (!this.isInstalled) return { installed: false }; else verify once more
AfterEnsureChecked ==
  /\ checking = "ensured"
  /\ IF ~isInstalled THEN Return(FALSE, "")
     ELSE checking' = "verifying" /\ UNCHANGED report
  /\ UNCHANGED <<environment, changes, isInstalled, version, checkPromise, changed,
                 outsideDetection>>

\* the second execAsync settles: installed, or the catch resets the cache
\* and starts checkCommand again
VerifySettles ==
  /\ checking = "verifying"
  /\ IF environment # ""
     THEN /\ Return(TRUE, environment)
          /\ UNCHANGED <<isInstalled, checkPromise>>
     ELSE /\ checkPromise' = FALSE
          /\ isInstalled' = FALSE
          /\ checking' = "redetecting"
          /\ UNCHANGED report
  /\ UNCHANGED <<environment, changes, version, changed, outsideDetection>>

\* await this.checkCommand() of the catch, and the return that follows
RecheckResolves ==
  /\ checking = "redetecting"
  /\ checkCommand
  /\ IF environment # "" THEN Return(TRUE, environment) ELSE Return(FALSE, "")
  /\ UNCHANGED <<environment, changes, checkPromise, changed, outsideDetection>>

NextDetection ==
  \/ EnvironmentChanges
  \/ CallCheckInstallation
  \/ EnsureCheckedResolves
  \/ AfterEnsureChecked
  \/ VerifySettles
  \/ RecheckResolves

SpecDetection == InitDetection /\ [][NextDetection]_vars

(***************************************************************************)
(* Observations used by the properties                                     *)
(***************************************************************************)
\* the argument list of the running call is complete
Built ==
  \/ pc \in {"execute", "running"}
  \/ pc = "done" /\ error \in {"", "EncoderProcessFailure", "EncoderLaunchFailure"}

\* the filter graph of the running call is assembled
Assembled == pc = "output" \/ Built

\* positions in the request list of the resources of the given kinds, ascending
PositionsOf(types) ==
  SelectSeq([p \in 1..Len(resources) |-> p], LAMBDA p : resources[p].type \in types)

VisualPositions == PositionsOf({"image", "video"})
AudioPositions == PositionsOf({"audio"})

\* request positions in the order of the -i inputs: images, videos, audios
BuildOrder ==
  PositionsOf({"image"}) \o PositionsOf({"video"}) \o PositionsOf({"audio"})

\* 0-based rank of request position p among the -i inputs
InputIndexOf(p) == (CHOOSE k \in 1..Len(BuildOrder) : BuildOrder[k] = p) - 1

\* positions of the -i flags in args, and the position of the k-th (0-based)
InputFlagPositions == {q \in 1..Len(args) : args[q] = "-i"}
InputFlagAt(k) ==
  CHOOSE q \in InputFlagPositions :
    Cardinality({r \in InputFlagPositions : r < q}) = k

\* the k-th -i of args names the file of request position BuildOrder[k + 1]
InputsFollowBuildOrder ==
  /\ Cardinality(InputFlagPositions) = Len(BuildOrder)
  /\ \A k \in 0..(Len(BuildOrder) - 1) :
       args[InputFlagAt(k) + 1] = Resolve(resources[BuildOrder[k + 1]].path)

Label(prefix, k) == "[" \o prefix \o ToString(k) \o "]"
RawPad(k, stream) == "[" \o ToString(k) \o ":" \o stream \o "]"

Range(seq) == {seq[k] : k \in 1..Len(seq)}

\* fragments of the graph by operator
Concats ==
  {k \in 1..Len(filterComplex) :
     \E n \in 0..Len(resources) :
       filterComplex[k].ops = <<"concat=n=" \o ToString(n) \o ":v=1:a=0">>}
ConcatLike ==
  {k \in 1..Len(filterComplex) :
     \E n \in 0..Len(resources), a \in 0..1 :
       filterComplex[k].ops
         = <<"concat=n=" \o ToString(n) \o ":v=1:a=" \o ToString(a)>>}
Amixes ==
  {k \in 1..Len(filterComplex) :
     \E n \in 0..Len(resources) :
       filterComplex[k].ops = <<"amix=inputs=" \o ToString(n)
                                 \o ":duration=longest:dropout_transition=2">>}
Producers(label) == {k \in 1..Len(filterComplex) : filterComplex[k].out = label}

\* the targets of the -map flags of args, in order
MapTargets ==
  LET at == SelectSeq([q \in 1..Len(args) |-> q], LAMBDA q : args[q] = "-map")
  IN  [k \in 1..Len(at) |-> args[at[k] + 1]]

(***************************************************************************)
(* C1: for every resource list with at least one image or video that       *)
(* composeVideo accepts, no two filters of the graph produce the same      *)
(* output pad label, exactly one filter produces [outv] and [outv] is the  *)
(* mapped video pad, with one visual resource (where the visual fragment   *)
(* itself produces it) and with several (where the concat produces it).    *)
(***************************************************************************)
C1_DistinctPadsAndOutV ==
  /\ \A j, k \in 1..Len(filterComplex) :
       j # k => filterComplex[j].out # filterComplex[k].out
  /\ Assembled =>
       /\ Cardinality(Producers("[outv]")) = 1
       /\ Len(VisualPositions) = 1 => Producers("[outv]") \cap ConcatLike = {}
       /\ Len(VisualPositions) > 1 => Producers("[outv]") \subseteq Concats
  /\ Built => "[outv]" \in Range(MapTargets)

C1_Witness ==
  /\ pc = "done" /\ error = ""
  /\ Len(VisualPositions) = 2
  /\ Len(filterComplex) = 5

(***************************************************************************)
(* C2 as claimed: one visual resource gives no concat; two or more give    *)
(* exactly one concat (a=0) whose input pads are the visual pads in the    *)
(* order of the resources in the request list, also when a video precedes  *)
(* an image.                                                               *)
(***************************************************************************)
C2_ConcatInRequestOrder ==
  Assembled =>
    LET nv == Len(VisualPositions)
    IN  IF nv = 1 THEN ConcatLike = {}
        ELSE /\ Cardinality(ConcatLike) = 1
             /\ \A c \in ConcatLike :
                  /\ c \in Concats
                  /\ filterComplex[c].ins =
                       [j \in 1..nv |-> Label("v", InputIndexOf(VisualPositions[j]))]

(***************************************************************************)
(* C2 amended: one visual resource gives no concat; two or more give       *)
(* exactly one concat (n = number of visuals, a=0) whose input pads are    *)
(* the visual pads in input-index order: every image in its request order, *)
(* then every video in its request order.                                  *)
(***************************************************************************)
C2_ConcatInInputOrder ==
  /\ Assembled =>
       LET nv == Len(VisualPositions)
           order == PositionsOf({"image"}) \o PositionsOf({"video"})
       IN  IF nv = 1 THEN ConcatLike = {}
           ELSE /\ Cardinality(ConcatLike) = 1
                /\ \A c \in ConcatLike :
                     /\ filterComplex[c].ops
                          = <<"concat=n=" \o ToString(nv) \o ":v=1:a=0">>
                     /\ filterComplex[c].ins =
                          [j \in 1..nv |-> Label("v", InputIndexOf(order[j]))]
                     /\ filterComplex[c].out = "[outv]"
  /\ Built => InputsFollowBuildOrder

C2_Witness ==
  /\ Built
  /\ Concats # {}
  /\ \E p, q \in 1..Len(resources) :
       p < q /\ resources[p].type = "video" /\ resources[q].type = "image"

(***************************************************************************)
(* C3 as claimed: with no audio-bearing resource no [outa] is mapped; with *)
(* one or more (audio resources and video resources) the graph has exactly *)
(* one amix and the audio pad of each of them is an input of it.           *)
(***************************************************************************)
C3_MixAllAudioBearing ==
  Built =>
    LET bearing == PositionsOf({"audio", "video"})
    IN  IF Len(bearing) = 0 THEN ~("[outa]" \in Range(MapTargets))
        ELSE /\ Cardinality(Amixes) = 1
             /\ \A m \in Amixes : \A j \in 1..Len(bearing) :
                  \/ Label("a", InputIndexOf(bearing[j])) \in Range(filterComplex[m].ins)
                  \/ RawPad(InputIndexOf(bearing[j]), "a") \in Range(filterComplex[m].ins)

(***************************************************************************)
(* C3 amended: with no audio resource the graph has no amix and no [outa]  *)
(* and no [outa] is mapped; with one or more audio resources the graph has *)
(* exactly one amix, producing [outa], whose inputs are, in order, the     *)
(* pads of the audio resources only: [a<k>] when a fragment produces it,   *)
(* the raw [<k>:a] otherwise.  The audio stream of a video resource is     *)
(* never an input of the amix.                                             *)
(***************************************************************************)
C3_MixAudioResources ==
  Built =>
    LET na == Len(AudioPositions)
        pad(p) == IF Producers(Label("a", InputIndexOf(p))) # {}
                  THEN Label("a", InputIndexOf(p))
                  ELSE RawPad(InputIndexOf(p), "a")
    IN  IF na = 0
        THEN /\ Amixes = {}
             /\ Producers("[outa]") = {}
             /\ ~("[outa]" \in Range(MapTargets))
        ELSE /\ Cardinality(Amixes) = 1
             /\ \A m \in Amixes :
                  /\ filterComplex[m].ops
                       = <<"amix=inputs=" \o ToString(na)
                            \o ":duration=longest:dropout_transition=2">>
                  /\ filterComplex[m].ins = [j \in 1..na |-> pad(AudioPositions[j])]
                  /\ filterComplex[m].out = "[outa]"
             /\ Producers("[outa]") = Amixes
             /\ "[outa]" \in Range(MapTargets)

C3_Witness ==
  /\ Built
  /\ Len(AudioPositions) = 2
  /\ Len(PositionsOf({"video"})) = 1
  /\ \E m \in Amixes : \E j, k \in 0..MaxLen :
       filterComplex[m].ins = <<RawPad(j, "a"), Label("a", k)>>

(***************************************************************************)
(* C4: a second call of composeVideo on the same resources and options     *)
(* builds the same argument list as the first up to the output path, so    *)
(* the same filter-graph text: nothing an earlier call left behind shows.  *)
(***************************************************************************)
C4_SameInputSameGraph ==
  (run > 1 /\ Built) =>
    /\ Len(prevArgs) = Len(args)
    /\ SubSeq(args, 1, Len(args) - 1) = SubSeq(prevArgs, 1, Len(prevArgs) - 1)

C4_Witness ==
  /\ run = 2 /\ pc = "done" /\ error = ""
  /\ Len(filterComplex) >= 4
  /\ args[Len(args)] # prevArgs[Len(prevArgs)]
  /\ \E q \in 1..Len(args) :
       args[q] = "-filter_complex" /\ prevArgs[q + 1] = GraphText(filterComplex)

(***************************************************************************)
(* C5: a compose request with an image resource whose duration is absent   *)
(* or <= 0 is rejected with an error and no encoder process is spawned.    *)
(***************************************************************************)
C5_ImageWithoutDurationRejected ==
  (/\ resourcesGiven
   /\ \E k \in 1..Len(resources) :
        /\ resources[k].type = "image"
        /\ ~("duration" \in DOMAIN resources[k] /\ resources[k].duration > 0))
  => /\ spawned = 0
     /\ pc = "done" => error # ""

\* positions of the request list whose file is not on disk
AbsentFiles == {k \in 1..Len(resources) : ~(Resolve(resources[k].path) \in disk)}

SeekOf(p) ==
  LET r == resources[p]
  IN  IF r.type = "image" THEN <<>>
      ELSE (IF "startTime" \in DOMAIN r /\ r.startTime > 0
            THEN <<"-ss", Str(r.startTime)>> ELSE <<>>)
           \o (IF "duration" \in DOMAIN r /\ r.duration > 0
               THEN <<"-t", Str(r.duration)>> ELSE <<>>)

\* the arguments between the previous input's path and the k-th -i (0-based)
SegmentBefore(k) ==
  SubSeq(args, IF k = 0 THEN 2 ELSE InputFlagAt(k - 1) + 2, InputFlagAt(k) - 1)

(***************************************************************************)
(* C8: the finished argument list is -y, then for each input in build      *)
(* order its own -ss / -t flags directly followed by its -i and path, then *)
(* one -filter_complex with the graph text, then encoding and -map flags,  *)
(* and the destination path last.                                          *)
(***************************************************************************)
C8_ArgumentOrder ==
  Built =>
    LET n == Len(BuildOrder)
        fcs == {q \in 1..Len(args) : args[q] = "-filter_complex"}
    IN  /\ args[1] = "-y"
        /\ InputsFollowBuildOrder
        /\ \A k \in 0..(n - 1) : SegmentBefore(k) = SeekOf(BuildOrder[k + 1])
        /\ Cardinality(fcs) = 1
        /\ \A q \in fcs :
             /\ q = InputFlagAt(n - 1) + 2
             /\ args[q + 1] = GraphText(filterComplex)
             /\ \A r \in (q + 2)..Len(args) :
                  ~(args[r] \in {"-y", "-ss", "-t", "-i", "-filter_complex"})
             /\ \E r \in (q + 2)..Len(args) : args[r] = "-vcodec"
             /\ \E r \in (q + 2)..Len(args) : args[r] = "-map"
        /\ args[Len(args)] = Resolve(outputPath)
        /\ \A r \in 1..(Len(args) - 1) : args[r] # Resolve(outputPath)

C8_Witness ==
  /\ pc = "done" /\ error = ""
  /\ Len(BuildOrder) = 3
  /\ \E q \in 1..Len(args) :
       /\ args[q] = "-ss" /\ args[q + 2] = "-t" /\ args[q + 4] = "-i"
       /\ \E r \in (q + 6)..Len(args) : args[r] = "-ss"

\* fragments that are neither the concat nor the amix
ResourceFragments == (1..Len(filterComplex)) \ (ConcatLike \cup Amixes)

(***************************************************************************)
(* C9: the fragment of the resource that is the k-th -i input (0-based)    *)
(* reads [k:v] or [k:a] and is given the output pad [vk] or [ak], for      *)
(* every mix of images, videos and audios; once the graph is assembled     *)
(* the only change is that a single visual fragment carries [outv].        *)
(***************************************************************************)
C9_LabelsFromInputIndex ==
  (pc \in {"images", "videos", "audios", "assemble"} \/ Assembled) =>
    LET n == Cardinality(InputFlagPositions)
        renamed == Assembled /\ Len(VisualPositions) = 1
    IN  /\ n = pushedInputs
        /\ n <= Len(BuildOrder)
        /\ \A k \in 0..(n - 1) :
             LET r == resources[BuildOrder[k + 1]]
                 stream == IF r.type = "audio" THEN "a" ELSE "v"
                 reads == {f \in ResourceFragments :
                             RawPad(k, stream) \in Range(filterComplex[f].ins)}
                 other == {f \in ResourceFragments :
                             RawPad(k, IF stream = "a" THEN "v" ELSE "a")
                               \in Range(filterComplex[f].ins)}
             IN  /\ args[InputFlagAt(k) + 1] = Resolve(r.path)
                 /\ other = {}
                 /\ stream = "v" => Cardinality(reads) = 1
                 /\ Cardinality(reads) <= 1
                 /\ \A f \in reads :
                      /\ filterComplex[f].ins = <<RawPad(k, stream)>>
                      /\ filterComplex[f].out =
                           (IF stream = "v" /\ renamed THEN "[outv]"
                            ELSE Label(stream, k))
                      /\ (r.type = "image")
                           <=> (filterComplex[f].ops[1] = "loop=-1:size=1:start=0")
        /\ \A f \in ResourceFragments :
             \E k \in 0..(n - 1), stream \in {"v", "a"} :
               filterComplex[f].ins = <<RawPad(k, stream)>>

C9_Witness ==
  /\ Built
  /\ \E p, q, r \in 1..Len(resources) :
       /\ p < q /\ q < r
       /\ resources[p].type = "audio"
       /\ resources[q].type = "video"
       /\ resources[r].type = "image"
  /\ Producers("[a2]") # {}

(***************************************************************************)
(* C10: [outv] is mapped whenever a visual resource exists; [outa] is      *)
(* mapped when the graph produced it; otherwise, with no audio resource    *)
(* and at least one video, the optional audio stream of the first video is *)
(* mapped, its index being the input index of that video (the number of    *)
(* images); with images only and no audio, no audio is mapped.             *)
(***************************************************************************)
C10_OutputMapping ==
  Built =>
    LET vids == PositionsOf({"video"})
        nimg == Len(PositionsOf({"image"}))
    IN  /\ InputsFollowBuildOrder
        /\ MapTargets =
             <<"[outv]">>
             \o (IF Producers("[outa]") # {} THEN <<"[outa]">>
                 ELSE IF Len(AudioPositions) = 0 /\ Len(vids) > 0
                 THEN <<ToString(nimg) \o ":a?">>
                 ELSE <<>>)
        /\ (Producers("[outa]") = {} /\ Len(vids) > 0) =>
             /\ InputIndexOf(vids[1]) = nimg
             /\ args[InputFlagAt(nimg) + 1] = Resolve(resources[vids[1]].path)

C10_Witness ==
  /\ Built
  /\ Len(PositionsOf({"image"})) = 2
  /\ Len(PositionsOf({"video"})) = 1
  /\ MapTargets = <<"[outv]", "2:a?">>

\* positions of a flag in args, and the values that follow it
FlagPositions(flag) == {q \in 1..Len(args) : args[q] = flag}
FlagValues(flag) == {args[q + 1] : q \in FlagPositions(flag)}

(***************************************************************************)
(* C11: -vcodec is always emitted; for libx264 / libx265 a -preset follows *)
(* and then exactly one of -crf (only for a CRF in 0..51) or -b:v; for any *)
(* other codec -b:v and neither -preset nor -crf; -pix_fmt yuv420p and     *)
(* -shortest always.  No -crf outside 0..51 is ever emitted.               *)
(***************************************************************************)
C11_EncodingFlags ==
  Built =>
    LET codec == IF "videoCodec" \in DOMAIN options THEN options.videoCodec
                 ELSE "libx264"
        crf == IF "videoCrf" \in DOMAIN options THEN options.videoCrf ELSE 23
        bitrate == IF "videoBitrate" \in DOMAIN options THEN options.videoBitrate
                   ELSE "2000k"
        tunable == codec \in {"libx264", "libx265"}
        inRange == crf >= 0 /\ crf <= 51
    IN  /\ Cardinality(FlagPositions("-vcodec")) = 1
        /\ FlagValues("-vcodec") = {codec}
        /\ Cardinality(FlagPositions("-preset")) = (IF tunable THEN 1 ELSE 0)
        /\ \A q \in FlagPositions("-preset") :
             /\ args[q - 2] = "-vcodec"
             /\ args[q + 2] \in {"-crf", "-b:v"}
        /\ Cardinality(FlagPositions("-crf")) = (IF tunable /\ inRange THEN 1 ELSE 0)
        /\ Cardinality(FlagPositions("-b:v")) = (IF tunable /\ inRange THEN 0 ELSE 1)
        /\ FlagValues("-b:v") \subseteq {bitrate}
        /\ FlagValues("-crf") \subseteq {ToString(n) : n \in 0..51}
        /\ FlagValues("-crf") \subseteq {ToString(crf)}
        /\ FlagValues("-pix_fmt") = {"yuv420p"}
        /\ Cardinality(FlagPositions("-shortest")) = 1

C11_Witness ==
  /\ Built
  /\ FlagValues("-vcodec") = {"libx264"}
  /\ FlagPositions("-preset") # {}
  /\ FlagValues("-b:v") = {"800k"}
  /\ options.videoCrf = 52

\* the two-images-and-one-audio example of the specification
ExampleImage ==
  With(With(ResourcePath("image", "/uploads/a.png"), "duration", 30),
       "transition", "fade")
ExampleAudio == With(ResourcePath("audio", "/uploads/e.mp3"), "volume", 50)
ExampleInput ==
  /\ resources = <<ExampleImage, ExampleImage, ExampleAudio>>
  /\ "resolution" \in DOMAIN options

\* the graph of the example, apart from the -map arguments
ExampleGraph ==
  /\ Len(filterComplex) = 5
  /\ filterComplex[1].ins = <<"[0:v]">> /\ filterComplex[1].out = "[v0]"
  /\ filterComplex[2].ins = <<"[1:v]">> /\ filterComplex[2].out = "[v1]"
  /\ \A k \in 1..2 :
       /\ "scale=1280:720:force_original_aspect_ratio=decrease"
            \in Range(filterComplex[k].ops)
       /\ "fps=25:round=up" \in Range(filterComplex[k].ops)
       /\ SubSeq(filterComplex[k].ops, Len(filterComplex[k].ops) - 2,
                 Len(filterComplex[k].ops))
            = <<"trim=duration=3", "fade=t=in:st=0:d=0.5",
                "fade=t=out:st=2.5:d=0.5">>
  /\ filterComplex[3] = [ins |-> <<"[2:a]">>, ops |-> <<"volume=0.5">>,
                         out |-> "[a2]"]
  /\ filterComplex[4] = [ins |-> <<"[v0]", "[v1]">>,
                         ops |-> <<"concat=n=2:v=1:a=0">>, out |-> "[outv]"]

(***************************************************************************)
(* C16 as claimed: for two images (3 s, fade, 0.5 s) at 1280x720 / 25 fps  *)
(* and one audio of volume 50 the graph has fragments ending [v0] and      *)
(* [v1], one concat=n=2:v=1:a=0[outv], one audio fragment [a2] holding     *)
(* volume=0.5, and the -map arguments are [outv] and [a2].                 *)
(***************************************************************************)
C16_ExampleMapsA2 ==
  (ExampleInput /\ Built) =>
    /\ ExampleGraph
    /\ MapTargets = <<"[outv]", "[a2]">>

(***************************************************************************)
(* C16 amended: the same graph, in which [a2] is the only input of an      *)
(* amix=inputs=1 producing [outa], and the -map arguments are [outv] and   *)
(* [outa].                                                                 *)
(***************************************************************************)
C16_ExampleMapsOutA ==
  (ExampleInput /\ Built) =>
    /\ ExampleGraph
    /\ filterComplex[5] =
         [ins |-> <<"[a2]">>,
          ops |-> <<"amix=inputs=1:duration=longest:dropout_transition=2">>,
          out |-> "[outa]"]
    /\ MapTargets = <<"[outv]", "[outa]">>

C16_Witness == ExampleInput /\ pc = "done" /\ error = ""

\* the single-video example of the specification
ExampleVideo == resources = <<ResourcePath("video", "/uploads/c.mp4")>>

(***************************************************************************)
(* C17: a single video without transition and without audio resource gives *)
(* no concat and no amix, its fragment produces [outv], no [v0] is left in *)
(* the graph, and the audio mapping is the fallback -map 0:a?.             *)
(***************************************************************************)
C17_SingleVideo ==
  /\ (ExampleVideo /\ Assembled) =>
       /\ Len(filterComplex) = 1
       /\ ConcatLike = {} /\ Amixes = {}
       /\ filterComplex[1].ins = <<"[0:v]">>
       /\ filterComplex[1].out = "[outv]"
       /\ \A k \in 1..Len(filterComplex) :
            /\ filterComplex[k].out # "[v0]"
            /\ ~("[v0]" \in Range(filterComplex[k].ins))
  /\ (ExampleVideo /\ Built) => MapTargets = <<"[outv]", "0:a?">>

C17_Witness == ExampleVideo /\ pc = "done" /\ error = ""

\* files written by downloadFromUrl for the request
DownloadedFiles ==
  {DownloadedPath(n, ext) : n \in 1..downloaded, ext \in {".png", ".mp3", ".mp4"}}

(***************************************************************************)
(* C12 as claimed: when the response of a compose request is sent, every   *)
(* file downloaded for that request has been removed, on the success path  *)
(* and on every failure path.                                              *)
(***************************************************************************)
C12_TempFilesRemoved ==
  handler = "responded" => DownloadedFiles \cap disk = {}

\* the request the handler received is one composeVideo is called for and
\* accepts: typed, sourced, and with visual content
ValidRequest ==
  /\ Has(body, "resources") /\ Len(body.resources) > 0
  /\ \A k \in 1..Len(body.resources) :
       LET r == body.resources[k]
       IN  /\ Has(r, "type") /\ r.type \in {"image", "video", "audio"}
           /\ IF Has(r, "url") THEN r.url \in ValidUrls
              ELSE Has(r, "filename") /\ r.filename \in {"c.mp4"}
  /\ \E k \in 1..Len(body.resources) : body.resources[k].type \in {"image", "video"}

(***************************************************************************)
(* C13: a compose request spawns the encoder at most once; when it is      *)
(* answered it has spawned exactly one process if it passed validation and *)
(* its downloads succeeded and none otherwise; no response exists while    *)
(* the process is running, and a failed run is answered with an error      *)
(* without a second spawn.                                                 *)
(***************************************************************************)
C13_OneSpawnPerRequest ==
  /\ spawned <= 1
  /\ pc = "running" => (response = <<>> /\ spawned = 1)
  /\ handler = "responded" =>
       /\ pc # "running"
       /\ spawned = (IF ValidRequest /\ response.error # "DownloadFailure"
                     THEN 1 ELSE 0)
       /\ response.error \in {"EncoderProcessFailure", "EncoderLaunchFailure"}
            => (spawned = 1 /\ response.status = 500)

C13_Witness ==
  /\ handler = "responded"
  /\ spawned = 1
  /\ response.error = "EncoderProcessFailure"

\* positions in delivered of the 'close' and 'error' events
Terminals == {k \in 1..Len(delivered) : delivered[k].ev \in {"close", "error"}}
FirstTerminal == CHOOSE k \in Terminals : \A m \in Terminals : k <= m

\* the text of one pipe delivered before position k
RECURSIVE Captured(_, _)
Captured(pipe, k) ==
  IF k <= 1 THEN ""
  ELSE Captured(pipe, k - 1)
       \o (IF delivered[k - 1].ev = pipe THEN delivered[k - 1].data ELSE "")

(***************************************************************************)
(* C15: the promise of executeFFmpeg is pending until the first 'close' or *)
(* 'error' event and is settled by that event alone: fulfilled with the    *)
(* command text and the captured stdout / stderr exactly when it is a      *)
(* close with code 0, rejected with the exit code and the captured text    *)
(* (stderr, or stdout when stderr is empty) when it is a close with        *)
(* another code, rejected as a launch failure when it is an 'error'; later *)
(* events leave the outcome as it is.                                      *)
(***************************************************************************)
C15_SettlesOnce ==
  promise.state # "none" =>
    IF Terminals = {} THEN promise.state = "pending"
    ELSE LET first == delivered[FirstTerminal]
             out == Captured("stdout", FirstTerminal)
             err == Captured("stderr", FirstTerminal)
         IN  /\ (promise.state = "fulfilled")
                  <=> (first.ev = "close" /\ first.code = 0)
             /\ (first.ev = "close" /\ first.code = 0) =>
                  promise = [state |-> "fulfilled",
                             command |-> "\"ffmpeg\" " \o Join(allArgs, " "),
                             stdout |-> out, stderr |-> err]
             /\ (first.ev = "close" /\ first.code # 0) =>
                  promise = [state |-> "rejected",
                             kind |-> "EncoderProcessFailure",
                             code |-> first.code,
                             text |-> IF err # "" THEN err ELSE out]
             /\ first.ev = "error" =>
                  /\ promise.state = "rejected"
                  /\ promise.kind = "EncoderLaunchFailure"

\* the launch failed and the 'close' that follows has been handled as well
C15_Witness ==
  /\ Cardinality(Terminals) = 2
  /\ child = <<>>
  /\ promise.state = "rejected"
  /\ promise.kind = "EncoderLaunchFailure"

\* requests that hold an output path and are not yet answered
InFlight == {r \in DOMAIN inflight : inflight[r].at \in {"named", "encoding", "written"}}

(***************************************************************************)
(* C14 as claimed: no two compose requests in flight hold the same output  *)
(* path, and the output file a request has written and not yet answered    *)
(* for is still on disk and still its own.                                 *)
(***************************************************************************)
C14_DistinctOutputFiles ==
  /\ \A r1, r2 \in InFlight :
       r1 # r2 => inflight[r1].outputPath # inflight[r2].outputPath
  /\ \A r \in DOMAIN inflight :
       inflight[r].at = "written" =>
         /\ inflight[r].outputPath \in DOMAIN author
         /\ author[inflight[r].outputPath] = r

(***************************************************************************)
(* C20 as claimed: when a chain request is answered no intermediate output *)
(* of the chain is left on disk, on success and on failure, renamed        *)
(* intermediates of extractFrame / extractAudio included; on success the   *)
(* final output is on disk.                                                *)
(***************************************************************************)
C20_NoIntermediateLeft ==
  (handler = "responded" /\ Has(body, "operations")) =>
    /\ written \cap disk = {}
    /\ response.status = 200 => response.outputFile \in disk

\* the documented limit of redirects of one download
MaxRedirects == 5

(***************************************************************************)
(* C18 as claimed: one download follows at most 5 redirects; a longer      *)
(* chain, a redirect loop included, ends as a download failure instead of  *)
(* being followed further.                                                 *)
(***************************************************************************)
C18_AtMostFiveRedirects == followed <= MaxRedirects

\* the files the last request of the file endpoints has removed
Gone == before \ disk

\* the files directly inside a directory of the application directory
DirectChildren(dir) == {"/" \o dir \o "/" \o n : n \in EntryNames}

(***************************************************************************)
(* C19: a request of the delete or clear endpoint that is answered with an *)
(* error removes nothing; every file a request removes lies directly       *)
(* inside the selected directory, which is uploads or output; a directory  *)
(* value other than these two, or a file name holding '..', '/' or '\',    *)
(* removes nothing; files outside the two directories and files in their   *)
(* subdirectories are never removed.                                       *)
(***************************************************************************)
C19_DeletesOnlyDirectChildren ==
  /\ {"/server.js", "/uploads_old/y.mp4", "/uploads/sub/x.mp4"} \subseteq disk
  /\ fileRequest # <<>> =>
       /\ response.status # 200 => Gone = {}
       /\ Gone # {} =>
            /\ "directory" \in DOMAIN fileRequest
            /\ fileRequest.directory \in {"uploads", "output"}
            /\ Gone \subseteq DirectChildren(fileRequest.directory)
       /\ (fileRequest.endpoint = "delete" /\ Gone # {}) =>
            /\ Len(fileRequest.filename.parts) = 1
            /\ fileRequest.filename.parts[1] \notin {"..", "a..b.mp4"}
            /\ Gone = {"/" \o fileRequest.directory \o "/"
                         \o fileRequest.filename.parts[1]}

\* a file was deleted and the next request, a traversal, was refused
C19_Witness ==
  /\ "/uploads/a.png" \notin disk
  /\ fileRequest # <<>>
  /\ fileRequest.endpoint = "delete"
  /\ "filename" \in DOMAIN fileRequest
  /\ fileRequest.filename.parts = <<"..", "server.js">>
  /\ response.status = 400

\* the running call has classified its resources
Partitioned ==
  \/ pc \in {"checkVisual", "declare", "images", "videos", "audios", "assemble",
             "output", "execute", "running"}
  \/ pc = "done" /\ error \in {"", "NoVisualContent", "ImageNotFound",
                                "EncoderProcessFailure", "EncoderLaunchFailure"}

\* the resources at the given positions of the request list
ResourcesAt(ps) == [k \in 1..Len(ps) |-> resources[ps[k]]]

(***************************************************************************)
(* C21: after the classification each of images, videos and audios holds   *)
(* exactly the resources of its kind in the order of the request list, so  *)
(* every resource of a recognised kind is in exactly one sub-list, and no  *)
(* step of composeVideo changes the request list.                          *)
(***************************************************************************)
C21_PartitionKeepsOrder ==
  /\ [](Partitioned =>
         /\ images = ResourcesAt(PositionsOf({"image"}))
         /\ videos = ResourcesAt(PositionsOf({"video"}))
         /\ audios = ResourcesAt(PositionsOf({"audio"}))
         /\ Len(images) + Len(videos) + Len(audios)
              = Len(PositionsOf({"image", "video", "audio"})))
  /\ [][resources' = resources]_vars

\* two different images around a video and an audio, classified
C21_Witness ==
  /\ Partitioned
  /\ Len(images) = 2 /\ images[1] # images[2]
  /\ Len(resources) = 3
  /\ resources[2].type # "image"

(***************************************************************************)
(* Filter texts by operator, for the target size and background of         *)
(* FragmentOptions                                                         *)
(***************************************************************************)
TargetW == ToString(Width(FragmentOptions))
TargetH == ToString(Height(FragmentOptions))
TargetSize == TargetW \o ":" \o TargetH
TargetColor == BgColorHex(FragmentOptions)

LoopOp == "loop=-1:size=1:start=0"
SetsarOp == "setsar=1"
ScaleDecrease == "scale=" \o TargetSize \o ":force_original_aspect_ratio=decrease"
ScaleIncrease == "scale=" \o TargetSize \o ":force_original_aspect_ratio=increase"
ScaleOps == {ScaleDecrease, ScaleIncrease}
CropOp == "crop=" \o TargetSize
PadOps ==
  {"pad=" \o TargetSize \o ":" \o x \o ":" \o y \o ":color=" \o TargetColor :
     x \in {"0", "ow-iw", "(ow-iw)/2"}, y \in {"0", "oh-ih", "(oh-ih)/2"}}
RotateOps ==
  {"rotate=" \o a \o ":fillcolor=" \o TargetColor \o ":ow=" \o TargetW
     \o ":oh=" \o TargetH :
   a \in {"1.5707963267948966", "3.141592653589793", "4.71238898038469"}}
AlphaFormatOp == "format=yuva420p"
AlphaMixOps == {"colorchannelmixer=aa=" \o Ratio100(o) : o \in 0..99}
BaseChainOps ==
  ScaleOps \cup {CropOp} \cup PadOps \cup RotateOps \cup {AlphaFormatOp}
  \cup AlphaMixOps
TrimOps == {"trim=duration=" \o Str(d) : d \in 0..100}
\* transition lengths and clip lengths of the pools, defaults included, in tenths
TransitionLengths == {0 - 5, 5, 40}
ClipLengths == {30, 45, 50}
FadeInOps == {"fade=t=in:st=0:d=" \o Str(d) : d \in TransitionLengths}
FadeOutOps ==
  {"fade=t=out:st=" \o Str(st) \o ":d=" \o Str(d) :
     st \in {0} \cup {c - d : c \in ClipLengths, d \in TransitionLengths},
     d \in TransitionLengths}

\* fragments of the images and of the videos of the running call
ImageFragments == {k \in 1..Len(filterComplex) : k <= Len(images)}
VideoFragments ==
  {k \in 1..Len(filterComplex) : Len(images) < k /\ k <= Len(images) + Len(videos)}

\* the resource a visual fragment was built for
VisualOf(k) == IF k <= Len(images) THEN images[k] ELSE videos[k - Len(images)]

\* positions of the operations of a fragment that are in a set of texts
OpsIn(k, texts) ==
  {j \in 1..Len(filterComplex[k].ops) : filterComplex[k].ops[j] \in texts}

(***************************************************************************)
(* C22: every image fragment is the infinite single-frame loop, then the   *)
(* scale / pad / rotate / opacity chain, then the frame-rate filter, then  *)
(* one trim to the image's duration; it always has that trim, and whatever *)
(* a transition adds comes after it.                                       *)
(***************************************************************************)
C22_ImageFragmentOrder ==
  \A k \in ImageFragments :
    LET ops == filterComplex[k].ops
        trims == OpsIn(k, TrimOps)
    IN  /\ Cardinality(trims) = 1
        /\ LET t == CHOOSE j \in trims : TRUE
           IN  /\ ops[t] = "trim=duration=" \o Str(NumOr(images[k], "duration", 30))
               /\ t >= 6
               /\ ops[1] = LoopOp
               /\ ops[2] \in ScaleOps
               /\ \A j \in 2..(t - 3) : ops[j] \in BaseChainOps
               /\ ops[t - 2] = SetsarOp
               /\ ops[t - 1] = "fps=" \o ToString(Fps(options)) \o ":round=up"
               /\ OpsIn(k, FadeInOps \cup FadeOutOps) \subseteq (t + 1)..Len(ops)
               /\ \A j \in (t + 1)..Len(ops) : ops[j] \notin {LoopOp, SetsarOp}

\* a rotated, half-transparent image with a fade, its fragment built
C22_Witness ==
  /\ pc = "done" /\ error = ""
  /\ Len(images) = 1 /\ ImageFragments = {1}
  /\ Has(images[1], "rotation") /\ images[1].rotation = 90
  /\ Has(images[1], "opacity") /\ images[1].opacity = 50
  /\ Len(filterComplex[1].ops) = 11
  /\ filterComplex[1].ops[9] = "trim=duration=4.5"
  /\ filterComplex[1].ops[10] = "fade=t=in:st=0:d=4"

\* the operations of a visual fragment from buildScaleAndPositionFilter: those
\* before setsar, after the loop of an image
BaseChain(k) ==
  LET ops == filterComplex[k].ops
      first == IF k \in ImageFragments THEN 2 ELSE 1
      sar == CHOOSE j \in 1..Len(ops) :
               /\ ops[j] = SetsarOp
               /\ \A q \in 1..(j - 1) : ops[q] # SetsarOp
  IN  SubSeq(ops, first, sar - 1)

KindOf(op) ==
  CASE op \in ScaleOps -> "scale"
    [] op = CropOp -> "crop"
    [] op \in PadOps -> "pad"
    [] op \in RotateOps -> "rotate"
    [] op = AlphaFormatOp -> "format"
    [] op \in AlphaMixOps -> "alpha"
    [] OTHER -> "other"

\* the kinds of the operations of a chain, the crop of scaleMode crop left out
KindsOf(chain) ==
  LET kinds == [j \in 1..Len(chain) |-> KindOf(chain[j])]
  IN  SelectSeq(kinds, LAMBDA x : x # "crop")

VisualFragments == ImageFragments \cup VideoFragments

(***************************************************************************)
(* C23: the chain of buildScaleAndPositionFilter is scale, pad, then a     *)
(* rotate exactly when the rotation is non-zero, then the alpha format and *)
(* alpha multiplier exactly when the opacity is below 100, in this order,  *)
(* so the pad follows the scale, the rotate follows the pad and the alpha  *)
(* pair ends the chain.                                                    *)
(***************************************************************************)
C23_ChainOrder ==
  \A k \in VisualFragments :
    LET r == VisualOf(k)
        rotation == IF Has(r, "rotation") THEN r.rotation ELSE 0
        opacity == IF Has(r, "opacity") THEN r.opacity ELSE 100
    IN  KindsOf(BaseChain(k))
          = <<"scale", "pad">>
            \o (IF rotation # 0 THEN <<"rotate">> ELSE <<>>)
            \o (IF opacity < 100 THEN <<"format", "alpha">> ELSE <<>>)

\* a rotated video at opacity 0, its fragment built
C23_Witness ==
  /\ pc = "done" /\ error = ""
  /\ Len(videos) = 1 /\ VideoFragments = {1}
  /\ Has(videos[1], "rotation") /\ videos[1].rotation = 90
  /\ Has(videos[1], "opacity") /\ videos[1].opacity = 0
  /\ Has(videos[1], "scaleMode") /\ videos[1].scaleMode = "crop"
  /\ Len(BaseChain(1)) = 6
  /\ BaseChain(1)[6] = "colorchannelmixer=aa=0"

\* the chain up to its pad, for each scaleMode
ScalePart(k) ==
  LET chain == BaseChain(k)
      pad == CHOOSE j \in 1..Len(chain) :
               /\ chain[j] \in PadOps
               /\ \A q \in 1..(j - 1) : chain[q] \notin PadOps
  IN  SubSeq(chain, 1, pad - 1)

(***************************************************************************)
(* C24: scaleMode fit gives the aspect-preserving decrease scale, fill the *)
(* aspect-preserving increase scale, crop the increase scale followed by a *)
(* crop to the target width and height, and any other or missing scaleMode *)
(* gives the very chain that fit gives for the same resource.              *)
(***************************************************************************)
C24_ScalePolicy ==
  \A k \in VisualFragments :
    LET r == VisualOf(k)
        given == Has(r, "scaleMode")
    IN  /\ \E j \in 1..Len(BaseChain(k)) : BaseChain(k)[j] \in PadOps
        /\ given /\ r.scaleMode = "fit" => ScalePart(k) = <<ScaleDecrease>>
        /\ given /\ r.scaleMode = "fill" => ScalePart(k) = <<ScaleIncrease>>
        /\ given /\ r.scaleMode = "crop" => ScalePart(k) = <<ScaleIncrease, CropOp>>
        /\ (~given \/ r.scaleMode \notin {"fit", "fill", "crop"}) =>
             /\ ScalePart(k) = <<ScaleDecrease>>
             /\ BaseChain(k)
                  = buildScaleAndPositionFilter(With(r, "scaleMode", "fit"), options)

\* an image with an unrecognised scaleMode, its fragment built
C24_Witness ==
  /\ pc = "done" /\ error = ""
  /\ Len(images) = 1 /\ ImageFragments = {1}
  /\ Has(images[1], "scaleMode") /\ images[1].scaleMode = "stretch"
  /\ filterComplex[1].ops[2] = "scale=1280:720:force_original_aspect_ratio=decrease"

KnownTransitions ==
  {"fade", "fadein", "fadeout", "slideLeft", "slideRight", "slideUp", "slideDown",
   "zoomIn", "zoomOut"}

\* the operations of a visual fragment after its trim (image) or its frame
\* rate filter (video)
TransitionPart(k) ==
  LET ops == filterComplex[k].ops
      last == IF k \in ImageFragments
              THEN CHOOSE j \in 1..Len(ops) : ops[j] \in TrimOps
              ELSE CHOOSE j \in 1..Len(ops) : ops[j] = "fps=" \o ToString(Fps(options))
  IN  SubSeq(ops, last + 1, Len(ops))

RawPads ==
  {RawPad(k, stream) : k \in 0..(Cardinality(InputFlagPositions) - 1),
                       stream \in {"v", "a"}}
RawMapTargets ==
  {ToString(k) \o ":a?" : k \in 0..(Cardinality(InputFlagPositions) - 1)}

\* the places where a label is consumed: filter inputs and -map targets
Consumers(label) ==
  Cardinality({<<k, q>> \in (1..Len(filterComplex)) \X (1..(Len(resources) + 1)) :
                 /\ q <= Len(filterComplex[k].ins)
                 /\ filterComplex[k].ins[q] = label})
  + Cardinality({q \in 1..Len(MapTargets) : MapTargets[q] = label})

(***************************************************************************)
(* C27: in the graph and the -map arguments of an accepted call every pad  *)
(* read by a filter (the concat and the amix included) is a raw stream of  *)
(* an input of the argument list or the output pad of exactly one filter,  *)
(* every -map target is such a raw stream or such an output pad, every     *)
(* output pad of a filter is consumed exactly once, and with a single      *)
(* visual resource no [v<index>] label is left anywhere.                   *)
(***************************************************************************)
C27_GraphWellFormed ==
  Built =>
    /\ \A k \in 1..Len(filterComplex) :
         /\ \A pad \in Range(filterComplex[k].ins) :
              pad \in RawPads \/ Cardinality(Producers(pad)) = 1
         /\ filterComplex[k].out \notin RawPads
         /\ Consumers(filterComplex[k].out) = 1
    /\ \A q \in 1..Len(MapTargets) :
         MapTargets[q] \in RawMapTargets \/ Cardinality(Producers(MapTargets[q])) = 1
    /\ Len(VisualPositions) = 1 =>
         \A k \in 1..Len(filterComplex), n \in 0..Len(resources) :
           /\ filterComplex[k].out # Label("v", n)
           /\ Label("v", n) \notin Range(filterComplex[k].ins)

\* an image, a video and an unfiltered audio: a concat of two labelled pads
\* and a mix that reads a raw pad
C27_Witness ==
  /\ Built
  /\ Cardinality(Concats) = 1
  /\ \E k \in Amixes : filterComplex[k].ins = <<"[2:a]">>
  /\ MapTargets = <<"[outv]", "[outa]">>

\* a chain request whose named file was in the uploads directory
ChainRequest ==
  /\ Has(body, "filename") /\ Has(body, "operations")
  /\ PathText(body.filename) \in UploadedFiles

(***************************************************************************)
(* C28: the uploaded file named by a chain request is on disk in every     *)
(* state of the request, so also when the response is sent, whatever the   *)
(* operations are and wherever the chain fails, and no operation is asked  *)
(* to write to its path.                                                   *)
(***************************************************************************)
C28_InputFileKept ==
  ChainRequest =>
    /\ PathText(body.filename) \in disk
    /\ PathText(body.filename) \notin written
    /\ handler = "operating" => PathText(opOutputPath) # PathText(body.filename)

\* a chain of three operations answered 200: two intermediates were
\* unlinked, the uploaded file is still there
C28_Witness ==
  /\ ChainRequest
  /\ handler = "responded" /\ response.status = 200
  /\ Len(body.operations) = 3
  /\ Cardinality(written) = 2
  /\ PathText(body.filename) \in disk

\* the types the switch of the handler knows
OperationTypes ==
  {"convert", "resize", "crop", "extractFrame", "extractAudio", "addWatermark",
   "imageToVideo"}

(***************************************************************************)
(* C29: the operations of a chain request run one at a time in list order: *)
(* the k-th finished call is operation k, its input is the uploaded file   *)
(* for the first and the path the previous call wrote for the others, a    *)
(* path whose extension is the frame or audio format after extractFrame /  *)
(* extractAudio; a 200 response carries one command per operation in order *)
(* and names the path the last call wrote; a missing or unsupported type   *)
(* ends the chain with only the operations before it run.                  *)
(***************************************************************************)
C29_ChainOrder ==
  ChainRequest =>
    LET ops == body.operations
        inputOf(k) == IF k = 1 THEN body.filename ELSE commands[k - 1].output
    IN  /\ Len(commands) = opIndex - 1
        /\ \A k \in 1..Len(commands) :
             /\ commands[k].type = ops[k].type
             /\ commands[k].input = inputOf(k)
             /\ commands[k].output.dir = OutputDir
             /\ ops[k].type = "extractFrame" =>
                  commands[k].output.ext
                    = (IF Has(ops[k].params, "format") THEN ops[k].params.format
                       ELSE "jpg")
             /\ ops[k].type = "extractAudio" =>
                  commands[k].output.ext
                    = (IF Has(ops[k].params, "format") THEN ops[k].params.format
                       ELSE "mp3")
        /\ handler = "operating" => currentInputPath = inputOf(opIndex)
        /\ (handler = "responded" /\ response.status = 200) =>
             /\ Len(response.commands) = Len(ops)
             /\ response.commands = commands
             /\ response.outputFile = PathText(commands[Len(ops)].output)
        /\ (handler = "responded" /\ response.status = 500
             /\ response.error \in {"MissingType", "UnsupportedOperation"}) =>
             /\ opIndex <= Len(ops)
             /\ ~Has(ops[opIndex], "type") \/ ops[opIndex].type \notin OperationTypes

\* extractAudio to wav, then a resize of the wav file, then an operation
\* without a type: two commands, the third operation never run
C29_Witness ==
  /\ ChainRequest
  /\ handler = "responded" /\ response.status = 500
  /\ response.error = "MissingType"
  /\ Len(body.operations) = 3 /\ opIndex = 3
  /\ Len(commands) = 2
  /\ commands[1].type = "extractAudio" /\ commands[1].output.ext = "wav"
  /\ commands[2].input = commands[1].output

(***************************************************************************)
(* C30 as claimed: the cached detection heals itself; a checkInstallation  *)
(* call during which the environment does not change reports installed:    *)
(* true when FFmpeg is there and installed: false when it is not, whatever *)
(* the earlier detections found.                                           *)
(***************************************************************************)
C30_DetectionSelfHealing ==
  (report # <<>> /\ ~report.changed) =>
    report.installed = (report.environment # "")

====
